---- MODULE Spec2Model ----
(***************************************************************************)
(* The Vault entity service (src/src/grpc_entity_service.py) served by a   *)
(* thread pool (src/grpc_server.py).  Every RPC handler is a sequence of   *)
(* steps; one step is one call to a collaborator (entity store, keystore, *)
(* OTP gateway) together with the local computation that follows it, so   *)
(* that handlers running on different workers interleave at those calls.  *)
(* The first step of a handler also receives the request.                  *)
(*                                                                         *)
(* Collaborators whose code is not part of the sources at hand (entity    *)
(* store, keystore, OTP gateway, LLT and ratchet libraries, HMAC) are      *)
(* modelled from the written specification.  Cryptographic values are     *)
(* strings built from their inputs, which makes HMAC and key agreement    *)
(* collision free.                                                         *)
(***************************************************************************)
EXTENDS Naturals, Sequences, FiniteSets, TLC

VARIABLES
    entities,     \* the entity table: a set of rows
    tokens,       \* the token table: a set of rows
    keystore,     \* keystore file path -> generation of the keypair in it (0: no file)
    otp_pending,  \* phone numbers with an OTP sent and not yet verified
    th,           \* per worker thread: position in its handler, request, locals
                  \* (history: otp_ok, verify_otp succeeded in this call; pw_seen,
                  \* the OTP it verified followed a password verification)
    env,          \* the phone numbers in use and the workers serving requests
    pw_ok         \* history: eids whose password was verified in a phase 1 that no
                  \* OTP verification or creation has followed yet

vars == <<entities, tokens, keystore, otp_pending, th, env, pw_ok>>

(***************************************************************************)
(* Bounds of the model.                                                    *)
(***************************************************************************)
MaxN == 2

NULL == "NULL"

\* Worker threads of the pool that take part (the pool has max_workers).
Threads == {"t1", "t2"}

SUPPORTED_PLATFORMS == {"gmail"}

Phones == {"p1", "p2"}
Clients == {"1", "2"}
\* A deployment: the phone numbers in use, the worker threads of the pool,
\* the clients (devices) that register and authenticate, whether clients
\* also send faulty requests (missing fields, invalid keys, wrong codes),
\* the clients that use the payload channel (senders) and the numbers of the
\* messages they have encrypted, and whether the token RPCs also get requests
\* with other platform spellings, other accounts and missing fields
\* (variants), and the kinds of exception the collaborators raise without
\* notice (faults).
\* Registration is explored with two workers serving one phone number (every
\* interleaving of two handlers) and with one worker serving two.
Environments ==
    {[phones |-> {"p1"}, workers |-> {"t1", "t2"}, clients |-> Clients, faulty |-> TRUE,
      senders |-> Clients, numbers |-> 0..MaxN, variants |-> TRUE,
      faults |-> {}],
     [phones |-> {"p1", "p2"}, workers |-> {"t1"}, clients |-> Clients, faulty |-> TRUE,
      senders |-> Clients, numbers |-> 0..MaxN, variants |-> TRUE,
      faults |-> {}]}
\* The payload channel is explored with two workers serving one registered
\* device.
RatchetEnvironments ==
    {[phones |-> {"p1"}, workers |-> {"t1", "t2"}, clients |-> {"1"}, faulty |-> FALSE,
      senders |-> Clients, numbers |-> 0..MaxN, variants |-> TRUE,
      faults |-> {}]}
\* Re-authentication of a device with an open payload channel is explored
\* with two workers serving one registered device.
SessionEnvironments ==
    {[phones |-> {"p1"}, workers |-> {"t1", "t2"}, clients |-> {"1"}, faulty |-> FALSE,
      senders |-> {"1"}, numbers |-> {0}, variants |-> TRUE,
      faults |-> {}]}
\* The token RPCs are explored with one worker serving two registered
\* devices, each on its own phone number.
VaultEnvironments ==
    {[phones |-> {"p1", "p2"}, workers |-> {"t1"}, clients |-> {"1"}, faulty |-> FALSE,
      senders |-> Clients, numbers |-> 0..MaxN, variants |-> TRUE,
      faults |-> {}]}
\* Writing, reading and deleting token rows is explored with one worker
\* serving one registered device that holds tokens of several accounts.
TokenEnvironments ==
    {[phones |-> {"p1"}, workers |-> {"t1"}, clients |-> {"1"}, faulty |-> FALSE,
      senders |-> {"1"}, numbers |-> {0}, variants |-> TRUE,
      faults |-> {}]}
\* Collaborators that raise are explored with one worker serving one
\* registered device.
Exceptions == {"Exception", "NotImplementedError"}
FaultEnvironments ==
    {[phones |-> {"p1"}, workers |-> {"t1"}, clients |-> {"1"}, faulty |-> FALSE,
      senders |-> {"1"}, numbers |-> {0}, variants |-> FALSE,
      faults |-> Exceptions]}
\* Handlers of the token RPCs racing on one entity are explored with two
\* workers serving one registered device.
RaceEnvironments ==
    {[phones |-> {"p1"}, workers |-> {"t1", "t2"}, clients |-> {"1"}, faulty |-> FALSE,
      senders |-> {"1"}, numbers |-> {0}, variants |-> FALSE,
      faults |-> {}]}
\* Request validation is explored with one worker serving one registered
\* device, in a deployment whose clients send defective registration and
\* authentication requests and in one whose clients send defective token
\* requests.
ValidationEnvironments ==
    {[phones |-> {"p1"}, workers |-> {"t1"}, clients |-> {"1"}, faulty |-> TRUE,
      senders |-> {"1"}, numbers |-> {0}, variants |-> FALSE,
      faults |-> {}],
     [phones |-> {"p1"}, workers |-> {"t1"}, clients |-> {"1"}, faulty |-> FALSE,
      senders |-> {"1"}, numbers |-> {0}, variants |-> TRUE,
      faults |-> {}]}
\* Confinement of the token RPCs to the caller's entity is explored with one
\* worker serving two registered devices, each on its own phone number.
IsolationEnvironments ==
    {[phones |-> {"p1", "p2"}, workers |-> {"t1"}, clients |-> {"1"}, faulty |-> FALSE,
      senders |-> {"1"}, numbers |-> {0}, variants |-> FALSE,
      faults |-> {}]}
Purposes == {"publish", "device_id"}

(***************************************************************************)
(* Crypto primitives.                                                      *)
(***************************************************************************)
HASHING_KEY == "K"

generate_hmac(key, msg) == "hmac(" \o key \o "," \o msg \o ")"

verify_hmac(key, msg, expected) == generate_hmac(key, msg) = expected

generate_eid(phone_number_hash) == "eid(" \o phone_number_hash \o ")"

EidOfPhone(phone_number) == generate_eid(generate_hmac(HASHING_KEY, phone_number))

encrypt_and_encode(plaintext) == "enc(" \o plaintext \o ")"

\* A server keypair is named by its keystore path and generation.
Paths == {generate_eid(generate_hmac(HASHING_KEY, p)) \o "_" \o u \o ".db" :
            p \in Phones, u \in Purposes}

keystore_path(eid, purpose) == eid \o "_" \o purpose \o ".db"

Gen(n) == CASE n = 0 -> "0" [] n = 1 -> "1" [] n = 2 -> "2" [] n = 3 -> "3"
            [] OTHER -> "n"

keypair(path, gen) == "kp(" \o path \o "#" \o Gen(gen) \o ")"

get_public_key(kp) == "pub(" \o kp \o ")"

\* X25519 agreement of a server keypair with a client public key.
agree(kp, client_pub) == "dh(" \o kp \o "," \o client_pub \o ")"

is_valid_x25519_public_key(k) == k \in {"cp1", "cp2", "cd1", "cd2"}

compute_device_id(secret_key, phone_number, public_key) ==
    LET combined_input == phone_number \o public_key
    IN  "hmac(" \o secret_key \o "," \o combined_input \o ")"

(***************************************************************************)
(* Request validation.  A required field is a name, or a tuple of          *)
(* alternatives; a request field is falsy when it is empty.                *)
(***************************************************************************)
Name(f) == [tuple |-> FALSE, names |-> <<f>>]
Tuple(fs) == [tuple |-> TRUE, names |-> fs]

Truthy(v) == Len(v) > 0

x25519_fields == {"client_publish_pub_key", "client_device_id_pub_key"}

\* missing_fields counting a tuple entry as missing when any one of its
\* alternatives is falsy.
missing_fields_every_alternative(request, required_fields) ==
    {i \in DOMAIN required_fields :
        \E j \in DOMAIN required_fields[i].names :
            ~ Truthy(request[required_fields[i].names[j]])}

missing_fields(request, required_fields) ==
    {i \in DOMAIN required_fields :
        LET field == required_fields[i]
        IN  IF field.tuple
            THEN ~ \E j \in DOMAIN field.names : Truthy(request[field.names[j]])
            ELSE ~ Truthy(request[field.names[1]])}

invalid_fields(request, required_fields) ==
    {f \in x25519_fields :
        /\ \E i \in DOMAIN required_fields :
              /\ ~ required_fields[i].tuple
              /\ required_fields[i].names[1] = f
        /\ ~ is_valid_x25519_public_key(request[f])}

\* "" stands for None (no error); otherwise the status of the error response.
validate_request_fields(request, required_fields) ==
    IF missing_fields(request, required_fields) # {}
    THEN "INVALID_ARGUMENT"
    ELSE IF invalid_fields(request, required_fields) # {}
         THEN "INVALID_ARGUMENT"
         ELSE ""

(***************************************************************************)
(* Entity store.                                                           *)
(***************************************************************************)
NoEntity ==
    [eid |-> NULL, phone_number_hash |-> NULL, password_hash |-> NULL,
     country_code |-> NULL, device_id |-> NULL,
     client_publish_pub_key |-> NULL, client_device_id_pub_key |-> NULL,
     publish_keypair |-> NULL, device_id_keypair |-> NULL,
     server_state |-> <<>>]

\* find_entity(<field>=value): the row with that value, or NoEntity.
find_entity(rows, field, value) ==
    IF \E r \in rows : r[field] = value
    THEN CHOOSE r \in rows : r[field] = value
    ELSE NoEntity

\* A store without primary key and unique index: create_entity never raises.
create_entity_accepts_all(rows, fields) == FALSE

\* create_entity raises when the primary key (eid) or the unique index
\* (phone_number_hash) already holds the value.
create_entity_raises(rows, fields) ==
    \E r \in rows : \/ r.eid = fields.eid
                    \/ r.phone_number_hash = fields.phone_number_hash

create_entity(rows, fields) == rows \cup {fields}

\* entity_obj.save(): UPDATE of all columns of the loaded record WHERE eid = pk.
save_entity(rows, entity_obj) ==
    IF \E r \in rows : r.eid = entity_obj.eid
    THEN {r \in rows : r.eid # entity_obj.eid} \cup {entity_obj}
    ELSE rows

\* entity_obj.delete_instance(): DELETE WHERE eid = pk.
\* A delete that removes nothing.
delete_entity_keeps(rows, entity_obj) == rows

delete_entity(rows, entity_obj) == {r \in rows : r.eid # entity_obj.eid}

(***************************************************************************)
(* Keystore: generate_keypair_and_public_key(path) loads the keypair of    *)
(* the file at path when it exists, and creates the file otherwise; one    *)
(* atomic operation.                                                       *)
(***************************************************************************)
\* A keystore that writes a new keypair on every call.
keystore_after_regenerate(ks, path) == [ks EXCEPT ![path] = @ + 1]

keystore_after_generate(ks, path) ==
    IF ks[path] = 0 THEN [ks EXCEPT ![path] = 1] ELSE ks

generated_keypair(ks, path) == keypair(path, keystore_after_generate(ks, path)[path])

(***************************************************************************)
(* OTP gateway: one outstanding code per phone number; a verified code is  *)
(* used up.  `accepts` is the gateway's own verdict (rate limit, expiry).  *)
(***************************************************************************)
send_otp_ok(phone_number, accepts) == accepts

otp_after_send(pending, phone_number, accepts) ==
    IF accepts THEN pending \cup {phone_number} ELSE pending

verify_otp_ok(pending, phone_number, code, accepts) ==
    phone_number \in pending /\ code = "good" /\ accepts

otp_after_verify(pending, phone_number, code, accepts) ==
    IF verify_otp_ok(pending, phone_number, code, accepts)
    THEN pending \ {phone_number}
    ELSE pending

(***************************************************************************)
(* Long-lived tokens.  On the wire: <eid>:<payload>.<signature>.  A token  *)
(* is the sequence its split(":", 1) gives: <<>> for the empty string, one *)
(* element when it holds no colon, else <<eid, llt>>, where llt records    *)
(* the payload's eid, the key that signed it and whether it has expired.   *)
(***************************************************************************)
generate_llt(eid, key) == <<eid, [eid |-> eid, key |-> key, exp |-> FALSE]>>

\* verify_llt(llt, key): the payload, or <<>> when the signature does not
\* verify under key or the token has expired.
verify_llt(llt, key) ==
    IF llt.key = key /\ ~ llt.exp THEN <<[eid |-> llt.eid]>> ELSE <<>>

(***************************************************************************)
(* Requests and threads.                                                   *)
(***************************************************************************)
EmptyRequest ==
    [phone_number |-> "", country_code |-> "", password |-> "",
     client_publish_pub_key |-> "", client_device_id_pub_key |-> "",
     ownership_proof_response |-> "", long_lived_token |-> <<>>,
     device_id |-> "", platform |-> "", account_identifier |-> "",
     token |-> "", payload_ciphertext |-> <<>>, payload_plaintext |-> ""]

\* An idle thread; it remembers the last request it served and the status
\* of the response it returned.
Idle(rpc, request, status) ==
    [pc |-> "idle", rpc |-> rpc, status |-> status, req |-> request,
     ent |-> NoEntity, pkp |-> NULL, dkp |-> NULL, st |-> <<>>, out |-> {},
     otp_ok |-> FALSE, pw_seen |-> FALSE]

\* The thread t in the middle of handler rpc, at step pc.
Running(rpc, pc, request, entity_obj) ==
    [pc |-> pc, rpc |-> rpc, status |-> "", req |-> request,
     ent |-> entity_obj, pkp |-> NULL, dkp |-> NULL, st |-> <<>>, out |-> {},
     otp_ok |-> FALSE, pw_seen |-> FALSE]

\* The server starts on an empty database and keystore, its workers idle.
Boot ==
    /\ entities = {}
    /\ tokens = {}
    /\ keystore = [p \in Paths |-> 0]
    /\ otp_pending = {}
    /\ th = [t \in Threads |-> Idle("", EmptyRequest, "")]
    /\ pw_ok = {}

Init == Boot /\ env \in Environments

InitRatchet == Boot /\ env \in RatchetEnvironments

InitVault == Boot /\ env \in VaultEnvironments

InitSession == Boot /\ env \in SessionEnvironments

InitTokens == Boot /\ env \in TokenEnvironments

InitFaults == Boot /\ env \in FaultEnvironments

InitValidation == Boot /\ env \in ValidationEnvironments

InitIsolation == Boot /\ env \in IsolationEnvironments

InitRace == Boot /\ env \in RaceEnvironments

\* The thread returns its response and is idle again.
Reply(t, rpc, request, status) == th' = [th EXCEPT ![t] = Idle(rpc, request, status)]

Respond(t, rpc, status) == Reply(t, rpc, th[t].req, status)

\* The thread returns a response that carries data.
RespondWith(t, rpc, status, out) ==
    th' = [th EXCEPT ![t] = [Idle(rpc, th[t].req, status) EXCEPT !.out = out]]

\* The status codes of error_response.
Errors ==
    {"INVALID_ARGUMENT", "ALREADY_EXISTS", "NOT_FOUND", "UNAUTHENTICATED",
     "UNIMPLEMENTED", "FAILED_PRECONDITION", "INTERNAL"}

\* The first step of a handler ends in an error response, or at the step
\* named by outcome with the entity it loaded.
Begin(t, rpc, request, entity_obj, outcome) ==
    IF outcome \in Errors
    THEN Reply(t, rpc, request, outcome)
    ELSE th' = [th EXCEPT ![t] = Running(rpc, outcome, request, entity_obj)]

\* Thread t can take the next request.
Free(t) == t \in env.workers /\ th[t].pc = "idle"

At(t, rpc, pc) == th[t].rpc = rpc /\ th[t].pc = pc

(***************************************************************************)
(* Requests the clients send.  A client holds a pair of X25519 public     *)
(* keys (publish, device_id).                                              *)
(***************************************************************************)
Passwords == {"pw1", "pw2"}

ClientKeys(clients) == {<<"cp" \o c, "cd" \o c>> : c \in clients}

Codes(e) == IF e.faulty THEN {"good", "wrong"} ELSE {"good"}

\* Key pairs with one key missing or not a valid X25519 public key.
DefectiveKeys == {<<"", "cd1">>, <<"cp1", "">>, <<"bad", "cd1">>, <<"cp1", "bad">>}

CreateEntityRequests(e) ==
    {[EmptyRequest EXCEPT !.phone_number = p] :
        p \in e.phones \cup (IF e.faulty THEN {""} ELSE {})}
    \cup
    {[EmptyRequest EXCEPT !.phone_number = p, !.country_code = "CM",
                          !.password = "pw1",
                          !.client_publish_pub_key = k[1],
                          !.client_device_id_pub_key = k[2],
                          !.ownership_proof_response = otp] :
        p \in e.phones, k \in ClientKeys(e.clients), otp \in Codes(e)}
    \cup
    {[EmptyRequest EXCEPT !.phone_number = "p1", !.country_code = x[1],
                          !.password = x[2],
                          !.client_publish_pub_key = x[3][1],
                          !.client_device_id_pub_key = x[3][2],
                          !.ownership_proof_response = "good"] :
        x \in IF e.faulty
              THEN {<<"", "pw1", <<"cp1", "cd1">>>>, <<"CM", "", <<"cp1", "cd1">>>>}
                   \cup {<<"CM", "pw1", k>> : k \in DefectiveKeys}
              ELSE {}}

AuthenticateEntityRequests(e) ==
    {[EmptyRequest EXCEPT !.phone_number = p, !.password = pw] :
        p \in e.phones, pw \in IF e.faulty THEN Passwords ELSE {"pw1"}}
    \cup
    {[EmptyRequest EXCEPT !.phone_number = x[1], !.password = x[2]] :
        x \in IF e.faulty THEN {<<"", "pw1">>, <<"p1", "">>} ELSE {}}
    \cup
    {[EmptyRequest EXCEPT !.phone_number = p,
                          !.client_publish_pub_key = k[1],
                          !.client_device_id_pub_key = k[2],
                          !.ownership_proof_response = otp] :
        p \in e.phones, k \in ClientKeys(e.clients), otp \in Codes(e)}
    \cup
    {[EmptyRequest EXCEPT !.phone_number = "p1",
                          !.client_publish_pub_key = k[1],
                          !.client_device_id_pub_key = k[2],
                          !.ownership_proof_response = "good"] :
        k \in IF e.faulty THEN DefectiveKeys ELSE {}}

(***************************************************************************)
(* CreateEntity.                                                           *)
(***************************************************************************)
\* CreateEntity without the ALREADY_EXISTS answer for a registered phone
\* number.
create_entity_outcome_unchecked(request, entity_obj) ==
    IF validate_request_fields(request, <<Name("phone_number")>>) # ""
    THEN "INVALID_ARGUMENT"
    ELSE IF Truthy(request.ownership_proof_response)
    THEN IF validate_request_fields(request,
                <<Name("country_code"), Name("password"),
                  Name("client_publish_pub_key"),
                  Name("client_device_id_pub_key")>>) # ""
         THEN "INVALID_ARGUMENT"
         ELSE "verify_otp"
    ELSE "send_otp"

\* The handler's body up to its first call of the OTP gateway: the status of
\* the error response, or the step that comes next.
create_entity_outcome(request, entity_obj) ==
    LET required_fields == <<Name("country_code"), Name("password"),
                             Name("client_publish_pub_key"),
                             Name("client_device_id_pub_key")>>
    IN  IF validate_request_fields(request, <<Name("phone_number")>>) # ""
        THEN "INVALID_ARGUMENT"
        ELSE IF entity_obj # NoEntity
        THEN "ALREADY_EXISTS"
        ELSE IF Truthy(request.ownership_proof_response)
        THEN IF validate_request_fields(request, required_fields) # ""
             THEN "INVALID_ARGUMENT"
             ELSE "verify_otp"
        ELSE "send_otp"

Steps == {"send_otp", "verify_otp", "keygen_publish", "keygen_device_id",
          "create_entity", "clear", "save"}

\* The request arrives; validation and the lookup by phone number hash.
CreateEntity(t) ==
    \E request \in CreateEntityRequests(env) :
        LET phone_number_hash == generate_hmac(HASHING_KEY, request.phone_number)
            entity_obj == find_entity(entities, "phone_number_hash", phone_number_hash)
            outcome == create_entity_outcome(request, entity_obj)
        IN  /\ Free(t)
            /\ IF outcome \in Steps
               THEN th' = [th EXCEPT ![t] =
                            Running("CreateEntity", outcome, request, NoEntity)]
               ELSE Reply(t, "CreateEntity", request, outcome)
            /\ UNCHANGED <<entities, tokens, keystore, otp_pending, env, pw_ok>>

\* initiate_creation: handle_pow_initialization.
CreateSendOtp(t) ==
    \E accepts \in BOOLEAN :
        /\ At(t, "CreateEntity", "send_otp")
        /\ otp_pending' = otp_after_send(otp_pending, th[t].req.phone_number, accepts)
        /\ IF send_otp_ok(th[t].req.phone_number, accepts)
           THEN Respond(t, "CreateEntity", "OK")
           ELSE Respond(t, "CreateEntity", "INVALID_ARGUMENT")
        /\ UNCHANGED <<entities, tokens, keystore, env, pw_ok>>

\* complete_creation going on to the key generation whatever the verdict
\* on the code.
CreateVerifyOtp_unchecked(t) ==
    \E accepts \in BOOLEAN :
        LET request == th[t].req
            success == verify_otp_ok(otp_pending, request.phone_number,
                                     request.ownership_proof_response, accepts)
        IN  /\ At(t, "CreateEntity", "verify_otp")
            /\ otp_pending' = otp_after_verify(otp_pending, request.phone_number,
                                     request.ownership_proof_response, accepts)
            /\ th' = [th EXCEPT ![t].pc = "keygen_publish", ![t].otp_ok = success]
            /\ UNCHANGED <<entities, tokens, keystore, env, pw_ok>>

\* complete_creation: handle_pow_verification.
CreateVerifyOtp(t) ==
    \E accepts \in BOOLEAN :
        LET request == th[t].req
            success == verify_otp_ok(otp_pending, request.phone_number,
                                     request.ownership_proof_response, accepts)
        IN  /\ At(t, "CreateEntity", "verify_otp")
            /\ otp_pending' = otp_after_verify(otp_pending, request.phone_number,
                                     request.ownership_proof_response, accepts)
            /\ IF success
               THEN th' = [th EXCEPT ![t].pc = "keygen_publish", ![t].otp_ok = TRUE]
               ELSE Respond(t, "CreateEntity", "UNAUTHENTICATED")
            /\ UNCHANGED <<entities, tokens, keystore, env, pw_ok>>

\* complete_creation: the publish keypair.
CreateKeygenPublish(t) ==
    LET phone_number_hash == generate_hmac(HASHING_KEY, th[t].req.phone_number)
        eid == generate_eid(phone_number_hash)
        path == keystore_path(eid, "publish")
    IN  /\ At(t, "CreateEntity", "keygen_publish")
        /\ keystore' = keystore_after_generate(keystore, path)
        /\ th' = [th EXCEPT ![t].pc = "keygen_device_id",
                            ![t].pkp = generated_keypair(keystore, path)]
        /\ UNCHANGED <<entities, tokens, otp_pending, env, pw_ok>>

\* complete_creation: the device_id keypair.
CreateKeygenDeviceId(t) ==
    LET phone_number_hash == generate_hmac(HASHING_KEY, th[t].req.phone_number)
        eid == generate_eid(phone_number_hash)
        path == keystore_path(eid, "device_id")
    IN  /\ At(t, "CreateEntity", "keygen_device_id")
        /\ keystore' = keystore_after_generate(keystore, path)
        /\ th' = [th EXCEPT ![t].pc = "create_entity",
                            ![t].dkp = generated_keypair(keystore, path)]
        /\ UNCHANGED <<entities, tokens, otp_pending, env, pw_ok>>

\* The row complete_creation hands to create_entity.
creation_fields(request, entity_publish_keypair, entity_device_id_keypair) ==
    LET phone_number_hash == generate_hmac(HASHING_KEY, request.phone_number)
        eid == generate_eid(phone_number_hash)
        device_id_shared_key ==
            agree(entity_device_id_keypair, request.client_device_id_pub_key)
    IN  [eid |-> eid,
         phone_number_hash |-> phone_number_hash,
         password_hash |-> generate_hmac(HASHING_KEY, request.password),
         country_code |-> encrypt_and_encode(request.country_code),
         device_id |-> compute_device_id(device_id_shared_key,
                                         request.phone_number,
                                         request.client_device_id_pub_key),
         client_publish_pub_key |-> request.client_publish_pub_key,
         client_device_id_pub_key |-> request.client_device_id_pub_key,
         publish_keypair |-> entity_publish_keypair,
         device_id_keypair |-> entity_device_id_keypair,
         server_state |-> <<>>]

\* complete_creation: create_entity and the response; an exception of the
\* store is caught by the handler.
CreateEntityRow(t) ==
    LET fields == creation_fields(th[t].req, th[t].pkp, th[t].dkp)
    IN  /\ At(t, "CreateEntity", "create_entity")
        /\ IF create_entity_raises(entities, fields)
           THEN /\ Respond(t, "CreateEntity", "INTERNAL")
                /\ UNCHANGED <<entities, pw_ok>>
           ELSE /\ entities' = create_entity(entities, fields)
                /\ pw_ok' = pw_ok \ {fields.eid}
                /\ Respond(t, "CreateEntity", "OK")
        /\ UNCHANGED <<tokens, keystore, otp_pending, env>>

(***************************************************************************)
(* AuthenticateEntity.                                                     *)
(***************************************************************************)
\* The handler's body up to its first call of the OTP gateway: the status of
\* the error response, or the step that comes next.
authenticate_entity_outcome(request, entity_obj) ==
    IF validate_request_fields(request, <<Name("phone_number")>>) # ""
    THEN "INVALID_ARGUMENT"
    ELSE IF entity_obj = NoEntity
    THEN "NOT_FOUND"
    ELSE IF Truthy(request.ownership_proof_response)
    THEN \* complete_authentication
         IF validate_request_fields(request,
                <<Name("client_publish_pub_key"),
                  Name("client_device_id_pub_key")>>) # ""
         THEN "INVALID_ARGUMENT"
         ELSE "verify_otp"
    ELSE \* initiate_authentication
         IF validate_request_fields(request, <<Name("password")>>) # ""
         THEN "INVALID_ARGUMENT"
         ELSE IF ~ verify_hmac(HASHING_KEY, request.password, entity_obj.password_hash)
         THEN "UNAUTHENTICATED"
         ELSE "send_otp"

\* The request arrives; validation, the lookup by phone number hash, and
\* the checks of initiate_authentication / complete_authentication that
\* precede their first call of the OTP gateway.
AuthenticateEntity(t) ==
    \E request \in AuthenticateEntityRequests(env) :
        LET phone_number_hash == generate_hmac(HASHING_KEY, request.phone_number)
            entity_obj == find_entity(entities, "phone_number_hash", phone_number_hash)
            outcome == authenticate_entity_outcome(request, entity_obj)
        IN  /\ Free(t)
            /\ IF outcome \in Steps
               THEN th' = [th EXCEPT ![t] =
                            Running("AuthenticateEntity", outcome, request, entity_obj)]
               ELSE Reply(t, "AuthenticateEntity", request, outcome)
            /\ pw_ok' = IF outcome = "send_otp"
                        THEN pw_ok \cup {entity_obj.eid}
                        ELSE pw_ok
            /\ UNCHANGED <<entities, tokens, keystore, otp_pending, env>>

\* initiate_authentication clearing the record before it asks the gateway.
AuthSendOtp_clearing(t) ==
    \E accepts \in BOOLEAN :
        /\ At(t, "AuthenticateEntity", "send_otp")
        /\ otp_pending' = otp_after_send(otp_pending, th[t].req.phone_number, accepts)
        /\ entities' = save_entity(entities,
               [th[t].ent EXCEPT !.device_id = NULL, !.server_state = <<>>])
        /\ IF send_otp_ok(th[t].req.phone_number, accepts)
           THEN th' = [th EXCEPT ![t].pc = "clear"]
           ELSE Respond(t, "AuthenticateEntity", "INVALID_ARGUMENT")
        /\ UNCHANGED <<tokens, keystore, env, pw_ok>>

\* initiate_authentication: handle_pow_initialization.
AuthSendOtp(t) ==
    \E accepts \in BOOLEAN :
        /\ At(t, "AuthenticateEntity", "send_otp")
        /\ otp_pending' = otp_after_send(otp_pending, th[t].req.phone_number, accepts)
        /\ IF send_otp_ok(th[t].req.phone_number, accepts)
           THEN th' = [th EXCEPT ![t].pc = "clear"]
           ELSE Respond(t, "AuthenticateEntity", "INVALID_ARGUMENT")
        /\ UNCHANGED <<entities, tokens, keystore, env, pw_ok>>

\* initiate_authentication: device_id and server_state are cleared and saved.
AuthClear(t) ==
    LET entity_obj == [th[t].ent EXCEPT !.device_id = NULL, !.server_state = <<>>]
    IN  /\ At(t, "AuthenticateEntity", "clear")
        /\ entities' = save_entity(entities, entity_obj)
        /\ Respond(t, "AuthenticateEntity", "OK")
        /\ UNCHANGED <<tokens, keystore, otp_pending, env, pw_ok>>

\* complete_authentication: handle_pow_verification.
AuthVerifyOtp(t) ==
    \E accepts \in BOOLEAN :
        LET request == th[t].req
            success == verify_otp_ok(otp_pending, request.phone_number,
                                     request.ownership_proof_response, accepts)
        IN  /\ At(t, "AuthenticateEntity", "verify_otp")
            /\ otp_pending' = otp_after_verify(otp_pending, request.phone_number,
                                     request.ownership_proof_response, accepts)
            /\ IF success
               THEN /\ th' = [th EXCEPT ![t].pc = "keygen_publish",
                                        ![t].otp_ok = TRUE,
                                        ![t].pw_seen = th[t].ent.eid \in pw_ok]
                    /\ pw_ok' = pw_ok \ {th[t].ent.eid}
               ELSE /\ Respond(t, "AuthenticateEntity", "UNAUTHENTICATED")
                    /\ UNCHANGED pw_ok
            /\ UNCHANGED <<entities, tokens, keystore, env>>

\* complete_authentication: the publish keypair.
AuthKeygenPublish(t) ==
    LET path == keystore_path(th[t].ent.eid, "publish")
    IN  /\ At(t, "AuthenticateEntity", "keygen_publish")
        /\ keystore' = keystore_after_generate(keystore, path)
        /\ th' = [th EXCEPT ![t].pc = "keygen_device_id",
                            ![t].pkp = generated_keypair(keystore, path)]
        /\ UNCHANGED <<entities, tokens, otp_pending, env, pw_ok>>

\* complete_authentication: the device_id keypair.
AuthKeygenDeviceId(t) ==
    LET path == keystore_path(th[t].ent.eid, "device_id")
    IN  /\ At(t, "AuthenticateEntity", "keygen_device_id")
        /\ keystore' = keystore_after_generate(keystore, path)
        /\ th' = [th EXCEPT ![t].pc = "save",
                            ![t].dkp = generated_keypair(keystore, path)]
        /\ UNCHANGED <<entities, tokens, otp_pending, env, pw_ok>>

\* A re-binding that derives the device_id from the client key the entity
\* had before.
rebound_entity_stale_key(entity_obj, request, entity_publish_keypair, entity_device_id_keypair) ==
    [entity_obj EXCEPT
        !.device_id = compute_device_id(
                          agree(entity_device_id_keypair,
                                entity_obj.client_device_id_pub_key),
                          request.phone_number,
                          entity_obj.client_device_id_pub_key),
        !.client_publish_pub_key = request.client_publish_pub_key,
        !.client_device_id_pub_key = request.client_device_id_pub_key,
        !.publish_keypair = entity_publish_keypair,
        !.device_id_keypair = entity_device_id_keypair]

\* The record complete_authentication saves.
rebound_entity(entity_obj, request, entity_publish_keypair, entity_device_id_keypair) ==
    LET device_id_shared_key ==
            agree(entity_device_id_keypair, request.client_device_id_pub_key)
    IN  [entity_obj EXCEPT
            !.device_id = compute_device_id(device_id_shared_key,
                                            request.phone_number,
                                            request.client_device_id_pub_key),
            !.client_publish_pub_key = request.client_publish_pub_key,
            !.client_device_id_pub_key = request.client_device_id_pub_key,
            !.publish_keypair = entity_publish_keypair,
            !.device_id_keypair = entity_device_id_keypair]

\* complete_authentication: the re-bound entity is saved, the LLT returned.
AuthSave(t) ==
    /\ At(t, "AuthenticateEntity", "save")
    /\ entities' = save_entity(entities,
                       rebound_entity(th[t].ent, th[t].req, th[t].pkp, th[t].dkp))
    /\ Respond(t, "AuthenticateEntity", "OK")
    /\ UNCHANGED <<tokens, keystore, otp_pending, env, pw_ok>>

(***************************************************************************)
(* Ratchet session of the publish channel.  The client never receives a   *)
(* message from the server (EncryptPayload runs no ratchet step), so it    *)
(* stays on its first sending chain: a message is named by the shared key  *)
(* of the session it was encrypted in and its number N in the chain.  A    *)
(* server_state holds the session's shared key, the receive counter and    *)
(* the numbers of the skipped messages whose keys it keeps.                *)
(***************************************************************************)
fresh_state(publish_shared_key) ==
    [sk |-> publish_shared_key, nr |-> 0, skipped |-> {}]

\* decode_relay_sms_payload: a payload is <<>> (empty), or holds one record.
decode_error(payload_ciphertext) == ~ payload_ciphertext[1].framed

\* decrypt_payload: TRUE when the message does not authenticate under a key
\* the state can still derive.
decrypt_error(server_state, publish_shared_key, message) ==
    LET state == IF server_state = <<>>
                 THEN fresh_state(publish_shared_key)
                 ELSE server_state[1]
    IN  \/ message.sk # state.sk
        \/ message.n < state.nr /\ message.n \notin state.skipped

\* decrypt_payload: the state after the message was decrypted.
decrypt_state(server_state, publish_shared_key, message) ==
    LET state == IF server_state = <<>>
                 THEN fresh_state(publish_shared_key)
                 ELSE server_state[1]
    IN  IF message.n \in state.skipped
        THEN [state EXCEPT !.skipped = @ \ {message.n}]
        ELSE [state EXCEPT !.nr = message.n + 1,
                           !.skipped = @ \cup {i \in 0..MaxN : state.nr <= i /\ i < message.n}]

\* Every device_id a client of one of the phone numbers can have computed.
DeviceIds(phones, clients) ==
    {compute_device_id(
        agree(keypair(keystore_path(EidOfPhone(p), "device_id"), 1), "cd" \o c),
        p, "cd" \o c) : p \in phones, c \in clients}

\* The messages a client of one of the phone numbers can have encrypted.
Messages(phones, clients, numbers) ==
    {[framed |-> TRUE,
      sk |-> agree(keypair(keystore_path(EidOfPhone(p), "publish"), 1), "cp" \o c),
      n |-> n] : p \in phones, c \in clients, n \in numbers}

DecryptPayloadRequests(e) ==
    {[EmptyRequest EXCEPT !.device_id = d, !.payload_ciphertext = <<m>>] :
        d \in DeviceIds(e.phones, e.senders) \cup {"unknown"},
        m \in Messages(e.phones, e.senders, e.numbers)}
    \cup
    {[EmptyRequest EXCEPT !.device_id = d, !.payload_ciphertext = m] :
        d \in DeviceIds({"p1"}, e.senders),
        m \in {<<>>, <<[framed |-> FALSE, sk |-> "", n |-> 0]>>}}
    \cup
    {[EmptyRequest EXCEPT !.payload_ciphertext = <<m>>] :
        m \in Messages({"p1"}, e.senders, e.numbers)}

(***************************************************************************)
(* DecryptPayload.                                                         *)
(***************************************************************************)
\* The handler's body after the lookup by device_id, up to entity_obj.save().
decrypt_payload_outcome(request, entity_obj) ==
    IF validate_request_fields(request,
           <<Name("device_id"), Name("payload_ciphertext")>>) # ""
    THEN "INVALID_ARGUMENT"
    ELSE IF entity_obj = NoEntity
    THEN "UNAUTHENTICATED"
    ELSE IF decode_error(request.payload_ciphertext)
    THEN "INVALID_ARGUMENT"
    ELSE IF decrypt_error(entity_obj.server_state,
                          agree(entity_obj.publish_keypair,
                                entity_obj.client_publish_pub_key),
                          request.payload_ciphertext[1])
    THEN "INVALID_ARGUMENT"
    ELSE "save"

\* The request arrives; validation, the lookup by device_id, decoding and
\* the ratchet step on the loaded record.
DecryptPayload(t) ==
    \E request \in DecryptPayloadRequests(env) :
        LET entity_obj == find_entity(entities, "device_id", request.device_id)
            outcome == decrypt_payload_outcome(request, entity_obj)
            state == decrypt_state(entity_obj.server_state,
                                   agree(entity_obj.publish_keypair,
                                         entity_obj.client_publish_pub_key),
                                   request.payload_ciphertext[1])
        IN  /\ Free(t)
            /\ IF outcome = "save"
               THEN th' = [th EXCEPT ![t] =
                            [Running("DecryptPayload", "save", request, entity_obj)
                                EXCEPT !.st = <<state>>]]
               ELSE Reply(t, "DecryptPayload", request, outcome)
            /\ UNCHANGED <<entities, tokens, keystore, otp_pending, env, pw_ok>>

\* A DecryptPayload whose save has written the state and then failed.
DecryptSave_torn(t) ==
    \E raises \in BOOLEAN :
        /\ At(t, "DecryptPayload", "save")
        /\ entities' = save_entity(entities, [th[t].ent EXCEPT !.server_state = th[t].st])
        /\ Respond(t, "DecryptPayload", IF raises THEN "INTERNAL" ELSE "OK")
        /\ UNCHANGED <<tokens, keystore, otp_pending, env, pw_ok>>

\* decrypt_message: the new server_state is saved with the loaded record;
\* a save that raises writes nothing and the handler answers INTERNAL.
DecryptSave(t) ==
    \E raises \in BOOLEAN :
        /\ At(t, "DecryptPayload", "save")
        /\ IF raises
           THEN /\ entities' = entities
                /\ Respond(t, "DecryptPayload", "INTERNAL")
           ELSE /\ entities' = save_entity(entities,
                                   [th[t].ent EXCEPT !.server_state = th[t].st])
                /\ Respond(t, "DecryptPayload", "OK")
        /\ UNCHANGED <<tokens, keystore, otp_pending, env, pw_ok>>

(***************************************************************************)
(* EncryptPayload.  The ratchet step and the save are commented out in the *)
(* handler: the response carries request.payload_plaintext.                *)
(***************************************************************************)
Plaintexts == {"hello"}

EncryptPayloadRequests(e) ==
    {[EmptyRequest EXCEPT !.device_id = d, !.payload_plaintext = x] :
        d \in DeviceIds(e.phones, e.senders) \cup {"unknown"}, x \in Plaintexts}
    \cup
    {[EmptyRequest EXCEPT !.device_id = d] : d \in DeviceIds({"p1"}, e.senders)}
    \cup
    {[EmptyRequest EXCEPT !.payload_plaintext = x] : x \in Plaintexts}

encrypt_payload_outcome(request, entity_obj) ==
    IF validate_request_fields(request,
           <<Name("device_id"), Name("payload_plaintext")>>) # ""
    THEN "INVALID_ARGUMENT"
    ELSE IF entity_obj = NoEntity
    THEN "UNAUTHENTICATED"
    ELSE "OK"

\* b64_encoded_content = request.payload_plaintext
b64_encoded_content(request) == request.payload_plaintext

EncryptPayload(t) ==
    \E request \in EncryptPayloadRequests(env) :
        LET entity_obj == find_entity(entities, "device_id", request.device_id)
            outcome == encrypt_payload_outcome(request, entity_obj)
        IN  /\ Free(t)
            /\ IF outcome = "OK"
               THEN th' = [th EXCEPT ![t] =
                            [Idle("EncryptPayload", request, "OK") EXCEPT
                                !.out = {[payload_ciphertext |->
                                              b64_encoded_content(request)]}]]
               ELSE Reply(t, "EncryptPayload", request, outcome)
            /\ UNCHANGED <<entities, tokens, keystore, otp_pending, env, pw_ok>>

(***************************************************************************)
(* Token store.  A row: id, entity (the owner's eid), platform,            *)
(* account_identifier_hash, account_identifier, account_tokens.            *)
(***************************************************************************)
fetch_entity_tokens(rows, entity_obj, platform, account_identifier_hash) ==
    {r \in rows : /\ r.entity = entity_obj.eid
                  /\ r.platform = platform
                  /\ r.account_identifier_hash = account_identifier_hash}

\* fetch_entity_tokens(entity, fetch_all=True)
fetch_all_entity_tokens(rows, entity_obj) ==
    {r \in rows : r.entity = entity_obj.eid}

\* The query's first row.
first_token(rows) == CHOOSE r \in rows : \A q \in rows : r.id <= q.id

\* The primary key of a new row: an id no row holds (the ids only tell the
\* rows apart, so the least free one is taken).
next_token_id(rows) ==
    CHOOSE i \in 1..(Cardinality(rows) + 1) :
        /\ \A r \in rows : r.id # i
        /\ \A j \in 1..(Cardinality(rows) + 1) : (\A r \in rows : r.id # j) => i <= j

\* A store without the key on (entity, platform, account_identifier_hash).
create_entity_token_accepts_all(rows, fields) == FALSE

\* The rows are keyed on (entity, platform, account_identifier_hash): the
\* insert of a second row with a key raises.
create_entity_token_raises(rows, fields) ==
    \E r \in rows : /\ r.entity = fields.entity
                    /\ r.platform = fields.platform
                    /\ r.account_identifier_hash = fields.account_identifier_hash

\* Whether the insert can raise for the reference it holds: only when the
\* entity row is gone, and then only in a store that enforces the reference.
create_entity_token_dangles(entity_rows, fields) ==
    IF find_entity(entity_rows, "eid", fields.entity) = NoEntity
    THEN BOOLEAN
    ELSE {FALSE}

create_entity_token(rows, fields) ==
    rows \cup {[id |-> next_token_id(rows),
                entity |-> fields.entity, platform |-> fields.platform,
                account_identifier_hash |-> fields.account_identifier_hash,
                account_identifier |-> fields.account_identifier,
                account_tokens |-> fields.account_tokens]}

\* token.save() on a loaded row: UPDATE ... WHERE id = pk, every column taken
\* from the record in memory.
save_token(rows, token) ==
    {IF r.id = token.id THEN token ELSE r : r \in rows}

\* token.delete_instance(): DELETE WHERE id = pk.
delete_token(rows, token) == {r \in rows : r.id # token.id}

\* Whether Entity.delete_instance can raise: only when a token row references
\* the entity, and then only in a store that enforces the reference.
delete_entity_raises(rows, entity_obj) ==
    IF fetch_all_entity_tokens(rows, entity_obj) # {} THEN BOOLEAN ELSE {FALSE}

\* A decryption that hands back the ciphertext.
decrypt_and_decode_identity(ciphertext) == ciphertext

decrypt_and_decode(ciphertext) == SubSeq(ciphertext, 5, Len(ciphertext) - 1)

\* str.lower() on one character: the uppercase letters map to the lowercase
\* ones, every other character to itself.
lower_char(c) ==
    CASE c = "A" -> "a" [] c = "B" -> "b" [] c = "C" -> "c" [] c = "D" -> "d"
      [] c = "E" -> "e" [] c = "F" -> "f" [] c = "G" -> "g" [] c = "H" -> "h"
      [] c = "I" -> "i" [] c = "J" -> "j" [] c = "K" -> "k" [] c = "L" -> "l"
      [] c = "M" -> "m" [] c = "N" -> "n" [] c = "O" -> "o" [] c = "P" -> "p"
      [] c = "Q" -> "q" [] c = "R" -> "r" [] c = "S" -> "s" [] c = "T" -> "t"
      [] c = "U" -> "u" [] c = "V" -> "v" [] c = "W" -> "w" [] c = "X" -> "x"
      [] c = "Y" -> "y" [] c = "Z" -> "z"
      [] OTHER -> c

\* str.lower(): every character of the string lowered.
RECURSIVE lower(_)
lower(platform) ==
    IF platform = ""
    THEN ""
    ELSE lower_char(SubSeq(platform, 1, 1))
         \o lower(SubSeq(platform, 2, Len(platform)))

(***************************************************************************)
(* verify_long_lived_token: the entity the request's token authenticates,  *)
(* or NoEntity for the UNAUTHENTICATED error response.                     *)
(***************************************************************************)
\* verify_long_lived_token without the comparison of the payload's eid with
\* the outer eid.
verify_long_lived_token_unpinned(request, rows) ==
    LET token == request.long_lived_token
    IN  IF Len(token) # 2
        THEN NoEntity
        ELSE LET entity_obj == find_entity(rows, "eid", token[1])
                 llt_payload ==
                     verify_llt(token[2],
                                agree(entity_obj.device_id_keypair,
                                      entity_obj.client_device_id_pub_key))
             IN  IF entity_obj = NoEntity \/ llt_payload = <<>>
                 THEN NoEntity
                 ELSE entity_obj

verify_long_lived_token(request, rows) ==
    LET token == request.long_lived_token
    IN  IF Len(token) # 2
        THEN NoEntity
        ELSE LET eid == token[1]
                 llt == token[2]
                 entity_obj == find_entity(rows, "eid", eid)
                 device_id_shared_key ==
                     agree(entity_obj.device_id_keypair,
                           entity_obj.client_device_id_pub_key)
                 llt_payload == verify_llt(llt, device_id_shared_key)
             IN  IF entity_obj = NoEntity
                 THEN NoEntity
                 ELSE IF llt_payload = <<>>
                 THEN NoEntity
                 ELSE IF llt_payload[1].eid # eid
                 THEN NoEntity
                 ELSE entity_obj

\* error_response: the status code and the details the context is given;
\* the details are user_msg, or sys_msg when user_msg is empty.
error_response(sys_msg, status_code, user_msg) ==
    [status |-> status_code,
     details |-> IF user_msg = "" THEN sys_msg ELSE user_msg]

\* create_error_response of verify_long_lived_token, with no user_msg.
create_error_response_bare(error_msg) ==
    error_response(error_msg, "UNAUTHENTICATED", "")

create_error_response(error_msg) ==
    error_response(error_msg, "UNAUTHENTICATED",
        "Your session has expired or the token is invalid. "
        \o "Please log in again to generate a new token.")

\* The error response of verify_long_lived_token in a one-element sequence,
\* or <<>> when it returns the entity.
verify_long_lived_token_error(request, rows) ==
    LET token == request.long_lived_token
    IN  IF Len(token) # 2
        THEN <<create_error_response("ValueError")>>
        ELSE LET eid == token[1]
                 llt == token[2]
                 entity_obj == find_entity(rows, "eid", eid)
                 device_id_shared_key ==
                     agree(entity_obj.device_id_keypair,
                           entity_obj.client_device_id_pub_key)
                 llt_payload == verify_llt(llt, device_id_shared_key)
             IN  IF entity_obj = NoEntity
                 THEN <<create_error_response(
                          "Possible token tampering detected. "
                          \o "Entity not found with eid")>>
                 ELSE IF llt_payload = <<>>
                 THEN <<create_error_response("llt_error")>>
                 ELSE IF llt_payload[1].eid # eid
                 THEN <<create_error_response(
                          "Possible token tampering detected. EID mismatch")>>
                 ELSE <<>>

\* The first step of a handler that calls verify_long_lived_token: it
\* returns the error response of the verification when there is one.
BeginLlt(t, rpc, request, entity_obj, outcome) ==
    LET llt_error_response ==
            IF Truthy(request.long_lived_token)
            THEN verify_long_lived_token_error(request, entities)
            ELSE <<>>
    IN  IF outcome = "UNAUTHENTICATED" /\ llt_error_response # <<>>
        THEN th' = [th EXCEPT ![t] =
                       [Idle(rpc, request, llt_error_response[1].status)
                           EXCEPT !.out =
                               {[details |-> llt_error_response[1].details]}]]
        ELSE Begin(t, rpc, request, entity_obj, outcome)

\* The tokens clients present: minted for an entity under the key it shares
\* with some client, expired ones, ones whose payload was minted for another
\* entity, and one without the colon.
SharedKeys(e) ==
    {agree(keypair(keystore_path(EidOfPhone(p), "device_id"), 1), "cd" \o c) :
        p \in e.phones, c \in e.clients}

LongLivedTokens(e) ==
    {<<EidOfPhone(p), [eid |-> EidOfPhone(p), key |-> k, exp |-> x]>> :
        p \in e.phones, k \in SharedKeys(e), x \in BOOLEAN}
    \cup
    {<<EidOfPhone(x[1]), [eid |-> EidOfPhone(x[2]), key |-> k, exp |-> FALSE]>> :
        x \in {y \in e.phones \X e.phones : y[1] # y[2]}, k \in SharedKeys(e)}
    \cup
    {<<"llt">>}

\* The token minted for phone number p registered by client c.
LltOf(p, c) ==
    generate_llt(EidOfPhone(p),
        agree(keypair(keystore_path(EidOfPhone(p), "device_id"), 1), "cd" \o c))

(***************************************************************************)
(* Requests of the token RPCs.  Platform spellings, missing fields and     *)
(* device_id credentials vary on requests that carry the token of the      *)
(* first phone number's first client.                                      *)
(***************************************************************************)
Platforms == {"gmail", "Gmail", "twitter"}

\* The requests in S, where the deployment's clients send such variants.
Variants(e, S) == IF e.variants THEN S ELSE {}

ListEntityStoredTokensRequests(e) ==
    {[EmptyRequest EXCEPT !.long_lived_token = l] :
        l \in LongLivedTokens(e) \cup {<<>>}}

StoreEntityTokenRequests(e) ==
    {[EmptyRequest EXCEPT !.long_lived_token = l, !.platform = "gmail",
                          !.account_identifier = "a@x", !.token = "tok1"] :
        l \in LongLivedTokens(e)}
    \cup
    Variants(e,
        {[EmptyRequest EXCEPT !.long_lived_token = LltOf("p1", "1"),
                              !.platform = x[1], !.account_identifier = x[2],
                              !.token = x[3]] :
            x \in {<<pl, "a@x", "tok1">> : pl \in Platforms}
                  \cup {<<"gmail", "b@x", "tok2">>, <<"", "a@x", "tok1">>,
                        <<"gmail", "", "tok1">>, <<"gmail", "a@x", "">>}}
        \cup
        {[EmptyRequest EXCEPT !.platform = "gmail", !.account_identifier = "a@x",
                              !.token = "tok1"]})

GetEntityAccessTokenRequests(e) ==
    {[EmptyRequest EXCEPT !.long_lived_token = l, !.platform = "gmail",
                          !.account_identifier = "a@x"] :
        l \in LongLivedTokens(e)}
    \cup
    {[EmptyRequest EXCEPT !.device_id = d, !.platform = "gmail",
                          !.account_identifier = "a@x"] :
        d \in DeviceIds(e.phones, Clients) \cup {"unknown", ""}}
    \cup
    {[EmptyRequest EXCEPT !.long_lived_token = x[1], !.device_id = x[2],
                          !.platform = x[3], !.account_identifier = x[4]] :
        x \in {<<LltOf("p1", "1"), "", pl, "a@x">> : pl \in Platforms \cup {""}}
              \cup {<<LltOf("p1", "1"), "", "gmail", ai>> : ai \in {"b@x", ""}}
              \cup {<<l, "unknown", "gmail", "a@x">> :
                        l \in {LltOf("p1", "1"), <<"llt">>}}}

\* UpdateEntityToken carries a device_id; the platform is not restricted.
UpdateEntityTokenRequests(e) ==
    {[EmptyRequest EXCEPT !.device_id = d, !.platform = "gmail",
                          !.account_identifier = "a@x", !.token = "tok3"] :
        d \in DeviceIds(e.phones, e.clients) \cup {"unknown"}}
    \cup
    Variants(e,
        {[EmptyRequest EXCEPT !.device_id = x[1], !.platform = x[2],
                              !.account_identifier = x[3], !.token = x[4]] :
            x \in {<<d, pl, "a@x", "tok3">> :
                       d \in DeviceIds({"p1"}, {"1"}), pl \in {"Gmail", "twitter", ""}}
                  \cup {<<d, "gmail", ai, "tok3">> :
                       d \in DeviceIds({"p1"}, {"1"}), ai \in {"b@x", ""}}
                  \cup {<<d, "gmail", "a@x", "">> : d \in DeviceIds({"p1"}, {"1"})}
                  \cup {<<"", "gmail", "a@x", "tok3">>}})

DeleteEntityTokenRequests(e) ==
    {[EmptyRequest EXCEPT !.long_lived_token = l, !.platform = "gmail",
                          !.account_identifier = "a@x"] :
        l \in LongLivedTokens(e) \cup Variants(e, {<<>>})}
    \cup
    Variants(e,
        {[EmptyRequest EXCEPT !.long_lived_token = LltOf("p1", "1"),
                              !.platform = x[1], !.account_identifier = x[2]] :
            x \in {<<pl, "a@x">> : pl \in Platforms \cup {""}}
                  \cup {<<"gmail", "b@x">>, <<"gmail", "">>}})

DeleteEntityRequests(e) ==
    {[EmptyRequest EXCEPT !.long_lived_token = l] :
        l \in LongLivedTokens(e) \cup Variants(e, {<<>>})}

(***************************************************************************)
(* ListEntityStoredTokens.                                                 *)
(***************************************************************************)
list_entity_stored_tokens_outcome(request, entity_obj) ==
    IF validate_request_fields(request, <<Name("long_lived_token")>>) # ""
    THEN "INVALID_ARGUMENT"
    ELSE IF entity_obj = NoEntity
    THEN "UNAUTHENTICATED"
    ELSE "fetch"

ListEntityStoredTokens(t) ==
    \E request \in ListEntityStoredTokensRequests(env) :
        LET entity_obj == verify_long_lived_token(request, entities)
        IN  /\ Free(t)
            /\ BeginLlt(t, "ListEntityStoredTokens", request, entity_obj,
                     list_entity_stored_tokens_outcome(request, entity_obj))
            /\ UNCHANGED <<entities, tokens, keystore, otp_pending, env, pw_ok>>

\* ListEntityStoredTokens fetching the token rows without entity=.
ListFetch_all_rows(t) ==
    /\ At(t, "ListEntityStoredTokens", "fetch")
    /\ RespondWith(t, "ListEntityStoredTokens", "OK",
           {[account_identifier |-> decrypt_and_decode(r.account_identifier),
             platform |-> r.platform] : r \in tokens})
    /\ UNCHANGED <<entities, tokens, keystore, otp_pending, env, pw_ok>>

\* fetch_entity_tokens(fetch_all=True), projected and decrypted.
ListFetch(t) ==
    /\ At(t, "ListEntityStoredTokens", "fetch")
    /\ RespondWith(t, "ListEntityStoredTokens", "OK",
           {[account_identifier |-> decrypt_and_decode(r.account_identifier),
             platform |-> r.platform] :
                r \in fetch_all_entity_tokens(tokens, th[t].ent)})
    /\ UNCHANGED <<entities, tokens, keystore, otp_pending, env, pw_ok>>

(***************************************************************************)
(* StoreEntityToken.                                                       *)
(***************************************************************************)
store_entity_token_outcome(request, entity_obj) ==
    IF validate_request_fields(request,
           <<Name("long_lived_token"), Name("token"), Name("platform"),
             Name("account_identifier")>>) # ""
    THEN "INVALID_ARGUMENT"
    ELSE IF entity_obj = NoEntity
    THEN "UNAUTHENTICATED"
    ELSE IF lower(request.platform) \notin SUPPORTED_PLATFORMS
    THEN "UNIMPLEMENTED"
    ELSE "fetch"

StoreEntityToken(t) ==
    \E request \in StoreEntityTokenRequests(env) :
        LET entity_obj == verify_long_lived_token(request, entities)
        IN  /\ Free(t)
            /\ BeginLlt(t, "StoreEntityToken", request, entity_obj,
                     store_entity_token_outcome(request, entity_obj))
            /\ UNCHANGED <<entities, tokens, keystore, otp_pending, env, pw_ok>>

\* existing_tokens = fetch_entity_tokens(...)
StoreFetch(t) ==
    LET request == th[t].req
        existing_tokens ==
            fetch_entity_tokens(tokens, th[t].ent, request.platform,
                generate_hmac(HASHING_KEY, request.account_identifier))
    IN  /\ At(t, "StoreEntityToken", "fetch")
        /\ IF existing_tokens # {}
           THEN Respond(t, "StoreEntityToken", "ALREADY_EXISTS")
           ELSE th' = [th EXCEPT ![t].pc = "create_token"]
        /\ UNCHANGED <<entities, tokens, keystore, otp_pending, env, pw_ok>>

new_token(request, entity_obj) ==
    [entity |-> entity_obj.eid,
     platform |-> request.platform,
     account_identifier_hash |-> generate_hmac(HASHING_KEY, request.account_identifier),
     account_identifier |-> encrypt_and_encode(request.account_identifier),
     account_tokens |-> encrypt_and_encode(request.token)]

\* create_entity_token(**new_token)
StoreCreateToken(t) ==
    /\ At(t, "StoreEntityToken", "create_token")
    /\ \E dangles \in create_entity_token_dangles(entities, new_token(th[t].req, th[t].ent)) :
           IF dangles \/ create_entity_token_raises(tokens, new_token(th[t].req, th[t].ent))
           THEN /\ tokens' = tokens
                /\ Respond(t, "StoreEntityToken", "INTERNAL")
           ELSE /\ tokens' = create_entity_token(tokens, new_token(th[t].req, th[t].ent))
                /\ Respond(t, "StoreEntityToken", "OK")
    /\ UNCHANGED <<entities, keystore, otp_pending, env, pw_ok>>

(***************************************************************************)
(* GetEntityAccessToken.                                                   *)
(***************************************************************************)
\* The entity the request's credential resolves to: the token when there is
\* one, else the device_id.
get_entity_access_token_entity(request, rows) ==
    IF Truthy(request.long_lived_token)
    THEN verify_long_lived_token(request, rows)
    ELSE find_entity(rows, "device_id", request.device_id)

get_entity_access_token_outcome(request, entity_obj) ==
    IF validate_request_fields(request,
           <<Tuple(<<"device_id", "long_lived_token">>), Name("platform"),
             Name("account_identifier")>>) # ""
    THEN "INVALID_ARGUMENT"
    ELSE IF entity_obj = NoEntity
    THEN "UNAUTHENTICATED"
    ELSE IF lower(request.platform) \notin SUPPORTED_PLATFORMS
    THEN "UNIMPLEMENTED"
    ELSE "fetch"

GetEntityAccessToken(t) ==
    \E request \in GetEntityAccessTokenRequests(env) :
        LET entity_obj == get_entity_access_token_entity(request, entities)
        IN  /\ Free(t)
            /\ BeginLlt(t, "GetEntityAccessToken", request, entity_obj,
                     get_entity_access_token_outcome(request, entity_obj))
            /\ UNCHANGED <<entities, tokens, keystore, otp_pending, env, pw_ok>>

\* fetch_tokens: the first matching row's account_tokens, decrypted.
GetFetch(t) ==
    LET request == th[t].req
        rows == fetch_entity_tokens(tokens, th[t].ent, request.platform,
                    generate_hmac(HASHING_KEY, request.account_identifier))
    IN  /\ At(t, "GetEntityAccessToken", "fetch")
        /\ IF rows = {}
           THEN Respond(t, "GetEntityAccessToken", "NOT_FOUND")
           ELSE RespondWith(t, "GetEntityAccessToken", "OK",
                    {[token |-> decrypt_and_decode(first_token(rows).account_tokens)]})
        /\ UNCHANGED <<entities, tokens, keystore, otp_pending, env, pw_ok>>

(***************************************************************************)
(* UpdateEntityToken.                                                      *)
(***************************************************************************)
update_entity_token_outcome(request, entity_obj) ==
    IF validate_request_fields(request,
           <<Name("device_id"), Name("token"), Name("platform"),
             Name("account_identifier")>>) # ""
    THEN "INVALID_ARGUMENT"
    ELSE IF entity_obj = NoEntity
    THEN "UNAUTHENTICATED"
    ELSE "fetch"

UpdateEntityToken(t) ==
    \E request \in UpdateEntityTokenRequests(env) :
        LET entity_obj == find_entity(entities, "device_id", request.device_id)
        IN  /\ Free(t)
            /\ Begin(t, "UpdateEntityToken", request, entity_obj,
                     update_entity_token_outcome(request, entity_obj))
            /\ UNCHANGED <<entities, tokens, keystore, otp_pending, env, pw_ok>>

\* existing_tokens = fetch_entity_tokens(...)
UpdateFetch(t) ==
    LET request == th[t].req
        existing_tokens ==
            fetch_entity_tokens(tokens, th[t].ent, request.platform,
                generate_hmac(HASHING_KEY, request.account_identifier))
    IN  /\ At(t, "UpdateEntityToken", "fetch")
        /\ IF existing_tokens = {}
           THEN Respond(t, "UpdateEntityToken", "NOT_FOUND")
           ELSE th' = [th EXCEPT ![t].pc = "save_token",
                                 ![t].out = {first_token(existing_tokens)}]
        /\ UNCHANGED <<entities, tokens, keystore, otp_pending, env, pw_ok>>

\* The update that writes the new value over the identifier as well.
updated_token_clobbering(token, request) ==
    [token EXCEPT !.account_tokens = encrypt_and_encode(request.token),
                  !.account_identifier = encrypt_and_encode(request.token)]

\* existing_tokens[0].account_tokens = encrypt_and_encode(request.token)
updated_token(token, request) ==
    [token EXCEPT !.account_tokens = encrypt_and_encode(request.token)]

\* existing_tokens[0].save()
UpdateSave(t) ==
    /\ At(t, "UpdateEntityToken", "save_token")
    /\ tokens' = save_token(tokens, updated_token(first_token(th[t].out), th[t].req))
    /\ Respond(t, "UpdateEntityToken", "OK")
    /\ UNCHANGED <<entities, keystore, otp_pending, env, pw_ok>>

(***************************************************************************)
(* DeleteEntityToken.                                                      *)
(***************************************************************************)
\* DeleteEntityToken without the platform check.
delete_entity_token_outcome_any_platform(request, entity_obj) ==
    IF validate_request_fields(request,
           <<Name("long_lived_token"), Name("platform"),
             Name("account_identifier")>>) # ""
    THEN "INVALID_ARGUMENT"
    ELSE IF entity_obj = NoEntity
    THEN "UNAUTHENTICATED"
    ELSE "fetch"

delete_entity_token_outcome(request, entity_obj) ==
    IF validate_request_fields(request,
           <<Name("long_lived_token"), Name("platform"),
             Name("account_identifier")>>) # ""
    THEN "INVALID_ARGUMENT"
    ELSE IF entity_obj = NoEntity
    THEN "UNAUTHENTICATED"
    ELSE IF lower(request.platform) \notin SUPPORTED_PLATFORMS
    THEN "UNIMPLEMENTED"
    ELSE "fetch"

DeleteEntityToken(t) ==
    \E request \in DeleteEntityTokenRequests(env) :
        LET entity_obj == verify_long_lived_token(request, entities)
        IN  /\ Free(t)
            /\ BeginLlt(t, "DeleteEntityToken", request, entity_obj,
                     delete_entity_token_outcome(request, entity_obj))
            /\ UNCHANGED <<entities, tokens, keystore, otp_pending, env, pw_ok>>

\* existing_tokens = fetch_entity_tokens(...)
DeleteTokenFetch(t) ==
    LET request == th[t].req
        existing_tokens ==
            fetch_entity_tokens(tokens, th[t].ent, request.platform,
                generate_hmac(HASHING_KEY, request.account_identifier))
    IN  /\ At(t, "DeleteEntityToken", "fetch")
        /\ IF existing_tokens = {}
           THEN Respond(t, "DeleteEntityToken", "NOT_FOUND")
           ELSE th' = [th EXCEPT ![t].pc = "delete_token",
                                 ![t].out = {first_token(existing_tokens)}]
        /\ UNCHANGED <<entities, tokens, keystore, otp_pending, env, pw_ok>>

\* existing_tokens[0].delete_instance()
DeleteTokenRow(t) ==
    /\ At(t, "DeleteEntityToken", "delete_token")
    /\ tokens' = delete_token(tokens, first_token(th[t].out))
    /\ Respond(t, "DeleteEntityToken", "OK")
    /\ UNCHANGED <<entities, keystore, otp_pending, env, pw_ok>>

(***************************************************************************)
(* DeleteEntity.                                                           *)
(***************************************************************************)
delete_entity_outcome(request, entity_obj) ==
    IF validate_request_fields(request, <<Name("long_lived_token")>>) # ""
    THEN "INVALID_ARGUMENT"
    ELSE IF entity_obj = NoEntity
    THEN "UNAUTHENTICATED"
    ELSE "fetch"

DeleteEntity(t) ==
    \E request \in DeleteEntityRequests(env) :
        LET entity_obj == verify_long_lived_token(request, entities)
        IN  /\ Free(t)
            /\ BeginLlt(t, "DeleteEntity", request, entity_obj,
                     delete_entity_outcome(request, entity_obj))
            /\ UNCHANGED <<entities, tokens, keystore, otp_pending, env, pw_ok>>

\* DeleteEntity without the stored-token check.
DeleteEntityFetch_unguarded(t) ==
    /\ At(t, "DeleteEntity", "fetch")
    /\ th' = [th EXCEPT ![t].pc = "delete"]
    /\ UNCHANGED <<entities, tokens, keystore, otp_pending, env, pw_ok>>

\* fetch_stored_tokens: the entity's tokens block the deletion.
DeleteEntityFetch(t) ==
    LET stored_tokens == fetch_all_entity_tokens(tokens, th[t].ent)
    IN  /\ At(t, "DeleteEntity", "fetch")
        /\ IF stored_tokens # {}
           THEN Respond(t, "DeleteEntity", "FAILED_PRECONDITION")
           ELSE th' = [th EXCEPT ![t].pc = "delete"]
        /\ UNCHANGED <<entities, tokens, keystore, otp_pending, env, pw_ok>>

\* entity_obj.delete_instance(); the keystore files stay.  When a token row
\* references the entity by now, the store either rejects the delete (the
\* handler returns INTERNAL) or deletes the entity row alone.
DeleteEntityRow(t) ==
    /\ At(t, "DeleteEntity", "delete")
    /\ \E raises \in delete_entity_raises(tokens, th[t].ent) :
           IF raises
           THEN /\ entities' = entities
                /\ Respond(t, "DeleteEntity", "INTERNAL")
           ELSE /\ entities' = delete_entity(entities, th[t].ent)
                /\ Respond(t, "DeleteEntity", "OK")
    /\ UNCHANGED <<tokens, keystore, otp_pending, env, pw_ok>>

(***************************************************************************)
(* Exceptions.  Every handler's body is one try block: an exception that a *)
(* collaborator raises is caught by the handler's except clauses, which    *)
(* return the error response.  The call that raises has no effect.         *)
(***************************************************************************)
Rpcs ==
    {"CreateEntity", "AuthenticateEntity", "ListEntityStoredTokens",
     "StoreEntityToken", "DecryptPayload", "GetEntityAccessToken",
     "EncryptPayload", "UpdateEntityToken", "DeleteEntityToken", "DeleteEntity"}

RequestsOf(rpc, e) ==
    CASE rpc = "CreateEntity" -> CreateEntityRequests(e)
      [] rpc = "AuthenticateEntity" -> AuthenticateEntityRequests(e)
      [] rpc = "ListEntityStoredTokens" -> ListEntityStoredTokensRequests(e)
      [] rpc = "StoreEntityToken" -> StoreEntityTokenRequests(e)
      [] rpc = "DecryptPayload" -> DecryptPayloadRequests(e)
      [] rpc = "GetEntityAccessToken" -> GetEntityAccessTokenRequests(e)
      [] rpc = "EncryptPayload" -> EncryptPayloadRequests(e)
      [] rpc = "UpdateEntityToken" -> UpdateEntityTokenRequests(e)
      [] rpc = "DeleteEntityToken" -> DeleteEntityTokenRequests(e)
      [] rpc = "DeleteEntity" -> DeleteEntityRequests(e)

\* The fields a handler validates before its first call of a collaborator.
first_required_fields(rpc) ==
    CASE rpc \in {"CreateEntity", "AuthenticateEntity"} -> <<Name("phone_number")>>
      [] rpc \in {"ListEntityStoredTokens", "DeleteEntity"} ->
            <<Name("long_lived_token")>>
      [] rpc = "StoreEntityToken" ->
            <<Name("long_lived_token"), Name("token"), Name("platform"),
              Name("account_identifier")>>
      [] rpc = "DecryptPayload" -> <<Name("device_id"), Name("payload_ciphertext")>>
      [] rpc = "GetEntityAccessToken" ->
            <<Tuple(<<"device_id", "long_lived_token">>), Name("platform"),
              Name("account_identifier")>>
      [] rpc = "EncryptPayload" -> <<Name("device_id"), Name("payload_plaintext")>>
      [] rpc = "UpdateEntityToken" ->
            <<Name("device_id"), Name("token"), Name("platform"),
              Name("account_identifier")>>
      [] rpc = "DeleteEntityToken" ->
            <<Name("long_lived_token"), Name("platform"), Name("account_identifier")>>

\* The handlers with an `except NotImplementedError` clause before the
\* `except Exception` clause.
NotImplementedHandlers ==
    {"StoreEntityToken", "GetEntityAccessToken", "DeleteEntityToken"}

\* The status of the response the except clauses of handler rpc return.
exception_status(rpc, exception) ==
    IF exception = "NotImplementedError" /\ rpc \in NotImplementedHandlers
    THEN "UNIMPLEMENTED"
    ELSE "INTERNAL"

\* The details of that response: str(e), or the user_msg of the catch-all.
exception_details(rpc, exception) ==
    IF exception = "NotImplementedError" /\ rpc \in NotImplementedHandlers
    THEN "str(e)"
    ELSE "Oops! Something went wrong. Please try again later."

Raised(t, rpc, request, exception) ==
    th' = [th EXCEPT ![t] =
             [Idle(rpc, request, exception_status(rpc, exception)) EXCEPT
                 !.out = {[details |-> exception_details(rpc, exception)]}]]

\* The handler of rpc calls a collaborator on request: every handler calls
\* find_entity once the first validation has passed, except that a handler
\* which verifies a long-lived token returns from the failed split(":", 1)
\* before any call.
calls_collaborator(rpc, request) ==
    /\ validate_request_fields(request, first_required_fields(rpc)) = ""
    /\ ( Truthy(request.long_lived_token)
         /\ rpc \in {"ListEntityStoredTokens", "StoreEntityToken",
                     "GetEntityAccessToken", "DeleteEntityToken",
                     "DeleteEntity"} )
       => Len(request.long_lived_token) = 2

\* The first collaborator the handler calls raises.
RaiseAtFirstCall(t) ==
    \E rpc \in Rpcs : \E request \in RequestsOf(rpc, env) :
        \E exception \in env.faults :
            /\ Free(t)
            /\ calls_collaborator(rpc, request)
            /\ Raised(t, rpc, request, exception)
            /\ UNCHANGED <<entities, tokens, keystore, otp_pending, env, pw_ok>>

\* The collaborator the handler calls in its next step raises.
RaiseAtStep(t) ==
    \E exception \in env.faults :
        /\ t \in env.workers
        /\ th[t].pc # "idle"
        /\ Raised(t, th[t].rpc, th[t].req, exception)
        /\ UNCHANGED <<entities, tokens, keystore, otp_pending, env, pw_ok>>

RaiseSteps(t) ==
    \/ RaiseAtFirstCall(t)
    \/ RaiseAtStep(t)

(***************************************************************************)
(* Specifications.                                                         *)
(***************************************************************************)
CreateSteps(t) ==
    \/ CreateEntity(t)
    \/ CreateSendOtp(t)
    \/ CreateVerifyOtp(t)
    \/ CreateKeygenPublish(t)
    \/ CreateKeygenDeviceId(t)
    \/ CreateEntityRow(t)

AuthSteps(t) ==
    \/ AuthenticateEntity(t)
    \/ AuthSendOtp(t)
    \/ AuthClear(t)
    \/ AuthVerifyOtp(t)
    \/ AuthKeygenPublish(t)
    \/ AuthKeygenDeviceId(t)
    \/ AuthSave(t)

DecryptSteps(t) ==
    \/ DecryptPayload(t)
    \/ DecryptSave(t)

EncryptSteps(t) == EncryptPayload(t)

\* Registration and authentication.
NextReg == \E t \in Threads : CreateSteps(t) \/ AuthSteps(t)

SpecReg == Init /\ [][NextReg]_vars

ListSteps(t) ==
    \/ ListEntityStoredTokens(t)
    \/ ListFetch(t)

StoreSteps(t) ==
    \/ StoreEntityToken(t)
    \/ StoreFetch(t)
    \/ StoreCreateToken(t)

GetSteps(t) ==
    \/ GetEntityAccessToken(t)
    \/ GetFetch(t)

DeleteTokenSteps(t) ==
    \/ DeleteEntityToken(t)
    \/ DeleteTokenFetch(t)
    \/ DeleteTokenRow(t)

UpdateSteps(t) ==
    \/ UpdateEntityToken(t)
    \/ UpdateFetch(t)
    \/ UpdateSave(t)

DeleteEntitySteps(t) ==
    \/ DeleteEntity(t)
    \/ DeleteEntityFetch(t)
    \/ DeleteEntityRow(t)

\* Registration and the payload channel.
NextRatchet == \E t \in Threads : CreateSteps(t) \/ DecryptSteps(t)

SpecRatchet == InitRatchet /\ [][NextRatchet]_vars

\* Registration, authentication and the payload channel.
NextSession ==
    \E t \in Threads :
        CreateSteps(t) \/ AuthSteps(t) \/ DecryptSteps(t) \/ EncryptSteps(t)

SpecSession == InitSession /\ [][NextSession]_vars

\* Registration and the RPCs a long-lived token authenticates.
NextVault ==
    \E t \in Threads :
        \/ CreateSteps(t)
        \/ ListSteps(t)
        \/ StoreSteps(t)
        \/ GetSteps(t)
        \/ DeleteTokenSteps(t)
        \/ DeleteEntitySteps(t)

SpecVault == InitVault /\ [][NextVault]_vars

\* Registration and the RPCs that write, read and delete token rows.
NextTokens ==
    \E t \in Threads :
        \/ CreateSteps(t)
        \/ StoreSteps(t)
        \/ GetSteps(t)
        \/ UpdateSteps(t)
        \/ DeleteTokenSteps(t)

SpecTokens == InitTokens /\ [][NextTokens]_vars

\* Registration, authentication and deletion of an entity.
NextLifecycle ==
    \E t \in Threads : CreateSteps(t) \/ AuthSteps(t) \/ DeleteEntitySteps(t)

SpecLifecycle == InitSession /\ [][NextLifecycle]_vars

\* Every RPC, with collaborators that raise.
NextFaults ==
    \E t \in Threads :
        \/ CreateSteps(t)
        \/ AuthSteps(t)
        \/ ListSteps(t)
        \/ StoreSteps(t)
        \/ DecryptSteps(t)
        \/ GetSteps(t)
        \/ EncryptSteps(t)
        \/ UpdateSteps(t)
        \/ DeleteTokenSteps(t)
        \/ DeleteEntitySteps(t)
        \/ RaiseSteps(t)

SpecFaults == InitFaults /\ [][NextFaults]_vars

\* A worker that has taken a request goes on with its handler: the handler
\* is blocking code run to its return by the pool's thread.
Progress(t) ==
    /\ th[t].pc # "idle"
    /\ \/ CreateSteps(t)
       \/ AuthSteps(t)
       \/ ListSteps(t)
       \/ StoreSteps(t)
       \/ DecryptSteps(t)
       \/ GetSteps(t)
       \/ UpdateSteps(t)
       \/ DeleteTokenSteps(t)
       \/ DeleteEntitySteps(t)
       \/ RaiseSteps(t)

SpecFaultsFair == SpecFaults /\ \A t \in Threads : WF_vars(Progress(t))

\* Registration and the RPCs that create and delete rows, on two workers.
NextRace ==
    \E t \in Threads :
        \/ CreateSteps(t)
        \/ StoreSteps(t)
        \/ DeleteTokenSteps(t)
        \/ DeleteEntitySteps(t)

SpecRace == InitRace /\ [][NextRace]_vars

\* Every RPC, with clients that send incomplete requests.
NextValidation ==
    \E t \in Threads :
        \/ CreateSteps(t)
        \/ AuthSteps(t)
        \/ ListSteps(t)
        \/ StoreSteps(t)
        \/ DecryptSteps(t)
        \/ GetSteps(t)
        \/ EncryptSteps(t)
        \/ UpdateSteps(t)
        \/ DeleteTokenSteps(t)
        \/ DeleteEntitySteps(t)

SpecValidation == InitValidation /\ [][NextValidation]_vars

\* Registration and the five token RPCs, for two entities.
NextIsolation ==
    \E t \in Threads :
        \/ CreateSteps(t)
        \/ ListSteps(t)
        \/ StoreSteps(t)
        \/ GetSteps(t)
        \/ UpdateSteps(t)
        \/ DeleteTokenSteps(t)

SpecIsolation == InitIsolation /\ [][NextIsolation]_vars

(***************************************************************************)
(* Properties.                                                             *)
(***************************************************************************)
\* Thread t takes a step.
Stepped(t) == th'[t] # th[t]

\* Thread t returns its response in this step.
Returns(t) == Stepped(t) /\ th'[t].pc = "idle"

\* Thread t receives a request of rpc in this step.
Receives(t, rpc) == th[t].pc = "idle" /\ Stepped(t) /\ th'[t].rpc = rpc

RowOf(rows, eid) == find_entity(rows, "eid", eid)

PhoneOf(row) ==
    CHOOSE p \in Phones : generate_hmac(HASHING_KEY, p) = row.phone_number_hash

\* Rows of entities' whose eid has no row in entities.
CreatedRows == {r \in entities' : \A q \in entities : q.eid # r.eid}

\* C1: an entity row is created only by a CreateEntity phase-2 call whose
\* verify_otp succeeded; a call whose verify_otp fails returns
\* UNAUTHENTICATED and creates neither an entity row nor a keystore file
\* (no keystore file is written by a call that has not verified its OTP).
C1_CreatedOnlyAfterOtp ==
    [][ /\ \A r \in CreatedRows :
              \E t \in Threads :
                  /\ At(t, "CreateEntity", "create_entity")
                  /\ Returns(t)
                  /\ th[t].otp_ok
                  /\ Truthy(th[t].req.ownership_proof_response)
                  /\ r.phone_number_hash =
                        generate_hmac(HASHING_KEY, th[t].req.phone_number)
        /\ \A t \in Threads :
              (At(t, "CreateEntity", "verify_otp") /\ Stepped(t) /\ ~ th'[t].otp_ok)
                  => /\ Returns(t)
                     /\ th'[t].status = "UNAUTHENTICATED"
                     /\ entities' = entities
                     /\ keystore' = keystore
        /\ keystore' # keystore => \E t \in Threads : Stepped(t) /\ th[t].otp_ok
      ]_vars

\* A CreateEntity phase 2 whose code was wrong has returned UNAUTHENTICATED
\* while an OTP is outstanding; nothing was created.
C1_Witness ==
    \E t \in Threads :
        /\ th[t].rpc = "CreateEntity" /\ th[t].pc = "idle"
        /\ th[t].status = "UNAUTHENTICATED"
        /\ th[t].req.phone_number \in otp_pending
        /\ entities = {}
        /\ \A path \in Paths : keystore[path] = 0

\* C2: a CreateEntity request (either phase) for a phone number whose hash
\* belongs to an entity returns ALREADY_EXISTS at once: no OTP is sent or
\* verified, and entity store, token store and keystore are unchanged.
C2_AlreadyExists ==
    [][ \A t \in Threads :
          ( /\ Receives(t, "CreateEntity")
            /\ Truthy(th'[t].req.phone_number)
            /\ find_entity(entities, "phone_number_hash",
                   generate_hmac(HASHING_KEY, th'[t].req.phone_number)) # NoEntity )
          => /\ th'[t].pc = "idle"
             /\ th'[t].status = "ALREADY_EXISTS"
             /\ otp_pending' = otp_pending
             /\ entities' = entities
             /\ tokens' = tokens
             /\ keystore' = keystore
      ]_vars

\* A phase-2 CreateEntity with a good code and an outstanding OTP for a
\* registered phone number has been answered ALREADY_EXISTS.
C2_Witness ==
    \E t \in Threads :
        /\ th[t].rpc = "CreateEntity" /\ th[t].pc = "idle"
        /\ th[t].status = "ALREADY_EXISTS"
        /\ th[t].req.ownership_proof_response = "good"
        /\ th[t].req.phone_number \in otp_pending
        /\ RowOf(entities, EidOfPhone(th[t].req.phone_number)) # NoEntity

\* C3: no two entity rows have the same phone_number_hash, whatever the
\* interleaving of concurrent CreateEntity handlers.
C3_PhoneHashUnique ==
    \A r1, r2 \in entities :
        r1.phone_number_hash = r2.phone_number_hash => r1 = r2

\* Two concurrent phase-2 CreateEntity handlers for one phone number both
\* passed the lookup and the OTP check; one created the row, the other's
\* create_entity was refused.
C3_Witness ==
    \E t1, t2 \in Threads :
        /\ th[t1].rpc = "CreateEntity" /\ th[t1].pc = "idle" /\ th[t1].status = "INTERNAL"
        /\ th[t2].rpc = "CreateEntity" /\ th[t2].pc = "idle" /\ th[t2].status = "OK"
        /\ Truthy(th[t2].req.ownership_proof_response)
        /\ th[t1].req.phone_number = th[t2].req.phone_number
        /\ th[t1].req.client_device_id_pub_key # th[t2].req.client_device_id_pub_key
        /\ Cardinality(entities) = 1

\* C4 (as claimed): every AuthenticateEntity phase 2 that re-binds the
\* entity follows a successful password verification for that entity in a
\* phase 1; a phase 2 is never accepted on the OTP alone.
C4_RebindNeedsPassword ==
    [][ \A t \in Threads :
          (At(t, "AuthenticateEntity", "save") /\ Returns(t)) => th[t].pw_seen
      ]_vars

\* C5 (as claimed): the step that completes AuthenticateEntity phase 1
\* leaves the persisted entity with device_id and server_state null and
\* with every other column as it was.
C5_ClearKeepsOtherFields ==
    [][ \A t \in Threads :
          (At(t, "AuthenticateEntity", "clear") /\ Returns(t)
             /\ RowOf(entities, th[t].ent.eid) # NoEntity)
          => /\ th'[t].status = "OK"
             /\ RowOf(entities', th[t].ent.eid) =
                    [RowOf(entities, th[t].ent.eid) EXCEPT
                        !.device_id = NULL, !.server_state = <<>>]
      ]_vars

\* C6 (as claimed): after a successful AuthenticateEntity phase 2 the
\* entity's publish keypair and device_id keypair both differ from the
\* ones it held before.
C6_RebindRotatesKeypairs ==
    [][ \A t \in Threads :
          (At(t, "AuthenticateEntity", "save") /\ Returns(t)
             /\ RowOf(entities, th[t].ent.eid) # NoEntity)
          => LET old == RowOf(entities, th[t].ent.eid)
                 new == RowOf(entities', th[t].ent.eid)
             IN  /\ new.publish_keypair # old.publish_keypair
                 /\ new.device_id_keypair # old.device_id_keypair
      ]_vars

\* C7: concurrent CreateEntity completions for one eid leave one keypair
\* per keystore path (each file is generated once), and every handler
\* obtains the keypairs that are in the files.
C7_OneKeypairPerPath ==
    /\ \A path \in Paths : keystore[path] <= 1
    /\ \A t \in Threads :
          th[t].rpc = "CreateEntity" =>
              LET eid == EidOfPhone(th[t].req.phone_number)
                  ppath == keystore_path(eid, "publish")
                  dpath == keystore_path(eid, "device_id")
              IN  /\ th[t].pkp # NULL => th[t].pkp = keypair(ppath, keystore[ppath])
                  /\ th[t].dkp # NULL => th[t].dkp = keypair(dpath, keystore[dpath])

\* Two CreateEntity handlers for the same phone number hold both keypairs
\* at the same time.
C7_Witness ==
    \E t1, t2 \in Threads :
        /\ t1 # t2
        /\ At(t1, "CreateEntity", "create_entity")
        /\ At(t2, "CreateEntity", "create_entity")
        /\ th[t1].req.phone_number = th[t2].req.phone_number
        /\ th[t1].pkp = th[t2].pkp /\ th[t1].dkp = th[t2].dkp
        /\ th[t1].pkp # NULL /\ th[t1].dkp # NULL

\* C8: every entity with a device_id has the device_id that
\* compute_device_id gives for the shared key of its stored device_id
\* keypair and client device_id key, its phone number and that client key;
\* and no two entities share a device_id.
C8_DeviceIdBinding ==
    /\ \A r \in entities :
          r.device_id # NULL =>
              r.device_id =
                  compute_device_id(
                      agree(r.device_id_keypair, r.client_device_id_pub_key),
                      PhoneOf(r), r.client_device_id_pub_key)
    /\ \A r1, r2 \in entities :
          (r1.device_id # NULL /\ r1.device_id = r2.device_id) => r1 = r2

\* Two entities with a device_id each, one of them re-bound to another
\* client key by AuthenticateEntity phase 2.
C8_Witness ==
    /\ Cardinality(entities) = 2
    /\ \A r \in entities : r.device_id # NULL
    /\ \E t \in Threads :
          /\ th[t].rpc = "AuthenticateEntity" /\ th[t].pc = "idle"
          /\ th[t].status = "OK"
          /\ Truthy(th[t].req.ownership_proof_response)
          /\ RowOf(entities, EidOfPhone(th[t].req.phone_number)).client_device_id_pub_key
                = th[t].req.client_device_id_pub_key
    /\ \E r1, r2 \in entities :
          r1.client_device_id_pub_key # r2.client_device_id_pub_key

LltRpcs ==
    {"ListEntityStoredTokens", "StoreEntityToken", "GetEntityAccessToken",
     "DeleteEntityToken", "DeleteEntity"}

\* The token authenticates entity_obj: its outer eid is the entity's, it is
\* signed (and not expired) under the shared key of the entity's stored
\* device_id_keypair and client_device_id_pub_key, and its payload names
\* the outer eid.
Authenticates(token, entity_obj) ==
    /\ Len(token) = 2
    /\ token[1] = entity_obj.eid
    /\ token[2].key = agree(entity_obj.device_id_keypair,
                            entity_obj.client_device_id_pub_key)
    /\ ~ token[2].exp
    /\ token[2].eid = token[1]

\* C9: a request of an LLT-protected RPC that presents a token gets past
\* verify_long_lived_token (is answered with anything but INVALID_ARGUMENT
\* or UNAUTHENTICATED, or is served further) only if a stored entity is
\* authenticated by the token in the above sense, and the handler then works
\* on that entity: a token minted for entity A never makes a handler act as
\* a different entity B.
C9_LltAuthenticatesItsEntity ==
    [][ \A t \in Threads : \A rpc \in LltRpcs :
          ( /\ Receives(t, rpc)
            /\ Truthy(th'[t].req.long_lived_token)
            /\ th'[t].status \notin {"INVALID_ARGUMENT", "UNAUTHENTICATED"} )
          => \E entity_obj \in entities :
                /\ Authenticates(th'[t].req.long_lived_token, entity_obj)
                /\ th'[t].pc # "idle" => th'[t].ent = entity_obj
      ]_vars

\* C9 witness: with two entities registered, a DeleteEntity handler has
\* accepted the token of the second one and holds that entity.
C9_Witness ==
    /\ Cardinality(entities) = 2
    /\ \E t \in Threads :
          /\ At(t, "DeleteEntity", "fetch")
          /\ th[t].req.long_lived_token = LltOf("p2", "1")
          /\ th[t].ent.eid = EidOfPhone("p2")

\* C10 (as claimed): the receive counter of a persisted server_state never
\* rewinds: a save that replaces a state of the same session keeps or
\* advances n_receive.
C10_ReceiveCounterNeverRewinds ==
    [][ \A old \in entities : \A new \in entities' :
          (old.eid = new.eid /\ old.server_state # <<>> /\ new.server_state # <<>>
             /\ old.server_state[1].sk = new.server_state[1].sk)
          => new.server_state[1].nr >= old.server_state[1].nr
      ]_vars

\* C11: a DecryptPayload call that does not return success writes nothing:
\* the step that receives the request (and answers the missing field, the
\* unknown device_id, the decode error and the decrypt error) and a save
\* that fails leave the entity table as it was; the table is written only
\* by the save step of a call whose decrypt_payload gave no error, with the
\* state that call computed, in the step that returns OK.
C11_FailedDecryptWritesNothing ==
    [][ /\ \A t \in Threads :
              /\ Receives(t, "DecryptPayload") => entities' = entities
              /\ (At(t, "DecryptPayload", "save") /\ Stepped(t)
                     /\ th'[t].status # "OK") => entities' = entities
              /\ (Receives(t, "DecryptPayload") /\ th'[t].pc = "save")
                    => decrypt_payload_outcome(th'[t].req, th'[t].ent) = "save"
        /\ (entities' # entities /\ \E t \in Threads :
                                        Stepped(t) /\ th'[t].rpc = "DecryptPayload")
              => \E t \in Threads :
                    /\ At(t, "DecryptPayload", "save") /\ Returns(t)
                    /\ th'[t].status = "OK"
                    /\ RowOf(entities', th[t].ent.eid).server_state = th[t].st
      ]_vars

\* A replayed message was refused with the ratchet's decrypt error and a
\* save has failed, while the entity holds a persisted server_state.
C11_Witness ==
    /\ \E r \in entities : r.server_state # <<>>
    /\ \E t1, t2 \in Threads :
          /\ th[t1].rpc = "DecryptPayload" /\ th[t1].pc = "idle"
          /\ th[t1].status = "INVALID_ARGUMENT"
          /\ th[t1].req.payload_ciphertext # <<>>
          /\ th[t1].req.payload_ciphertext[1].framed
          /\ th[t2].rpc = "DecryptPayload" /\ th[t2].pc = "idle"
          /\ th[t2].status = "INTERNAL"

\* C12 (as claimed): once a DecryptPayload for a device_id and payload has
\* returned success, a later DecryptPayload with the same device_id and
\* payload fails: a call that arrives while another worker still shows the
\* finished, successful call for the same request is answered with an error.
C12_ReplayFails ==
    [][ \A t, u \in Threads :
          ( /\ t # u
            /\ Receives(t, "DecryptPayload")
            /\ th[u].pc = "idle" /\ th[u].rpc = "DecryptPayload"
            /\ th[u].status = "OK"
            /\ th'[t].req = th[u].req )
          => th'[t].pc = "idle" /\ th'[t].status \in Errors
      ]_vars

\* C13: a DeleteEntity request whose long-lived token authenticates an entity
\* goes on to the stored-token query and changes nothing on the way; when
\* that query finds at least one token of the entity, the handler returns
\* FAILED_PRECONDITION and the entity rows, the token rows and the keystore
\* are what they were.
C13_DeleteEntityRefusedWithTokens ==
    [][\A t \in Threads :
          /\ ( /\ Receives(t, "DeleteEntity")
               /\ Truthy(th'[t].req.long_lived_token)
               /\ verify_long_lived_token(th'[t].req, entities) # NoEntity )
             => /\ th'[t].pc = "fetch"
                /\ th'[t].ent = verify_long_lived_token(th'[t].req, entities)
                /\ UNCHANGED <<entities, tokens, keystore>>
          /\ ( /\ At(t, "DeleteEntity", "fetch")
               /\ Stepped(t)
               /\ fetch_all_entity_tokens(tokens, th[t].ent) # {} )
             => /\ Returns(t)
                /\ th'[t].status = "FAILED_PRECONDITION"
                /\ UNCHANGED <<entities, tokens, keystore>>
      ]_vars

\* C13 witness: a DeleteEntity was refused with FAILED_PRECONDITION and the
\* entity and its token are still stored.
C13_Witness ==
    \E t \in Threads :
        /\ th[t].pc = "idle"
        /\ th[t].rpc = "DeleteEntity"
        /\ th[t].status = "FAILED_PRECONDITION"
        /\ verify_long_lived_token(th[t].req, entities) # NoEntity
        /\ fetch_all_entity_tokens(tokens,
               verify_long_lived_token(th[t].req, entities)) # {}

\* C14: every token row references an entity row that exists, whatever the
\* interleaving of the DeleteEntity and StoreEntityToken handlers.
C14_NoOrphanToken ==
    \A r \in tokens : \E e \in entities : e.eid = r.entity

\* C15: there is at most one token row per (entity, platform,
\* account_identifier_hash) in every state; a StoreEntityToken whose query
\* finds a row with its key returns ALREADY_EXISTS and changes nothing; and a
\* step that adds a token row adds one row, under a key no row had (so of
\* two handlers that both found no row only one creates it).
C15_OneTokenPerKey ==
    /\ [](\A r, q \in tokens :
             ( /\ r.entity = q.entity
               /\ r.platform = q.platform
               /\ r.account_identifier_hash = q.account_identifier_hash )
             => r = q)
    /\ [][\A t \in Threads :
             /\ ( /\ At(t, "StoreEntityToken", "fetch")
                  /\ Stepped(t)
                  /\ fetch_entity_tokens(tokens, th[t].ent, th[t].req.platform,
                         generate_hmac(HASHING_KEY, th[t].req.account_identifier)) # {} )
                => /\ Returns(t)
                   /\ th'[t].status = "ALREADY_EXISTS"
                   /\ UNCHANGED <<entities, tokens, keystore>>
             /\ ( At(t, "StoreEntityToken", "create_token") /\ Stepped(t)
                  /\ tokens' # tokens )
                => /\ th'[t].status = "OK"
                   /\ Cardinality(tokens') = Cardinality(tokens) + 1
                   /\ tokens \subseteq tokens'
                   /\ fetch_entity_tokens(tokens, th[t].ent, th[t].req.platform,
                          generate_hmac(HASHING_KEY, th[t].req.account_identifier)) = {}
       ]_vars

\* C15 witness: two handlers served the same StoreEntityToken request at the
\* same time; one created the row and returned OK, the other's insert was
\* rejected, and the entity has its one row.
C15_Witness ==
    \E t, u \in Threads :
        /\ t # u
        /\ th[t].pc = "idle" /\ th[t].rpc = "StoreEntityToken" /\ th[t].status = "OK"
        /\ th[u].pc = "idle" /\ th[u].rpc = "StoreEntityToken" /\ th[u].status = "INTERNAL"
        /\ th[u].req = th[t].req
        /\ verify_long_lived_token(th[t].req, entities) # NoEntity
        /\ Cardinality(fetch_entity_tokens(tokens,
               verify_long_lived_token(th[t].req, entities), th[t].req.platform,
               generate_hmac(HASHING_KEY, th[t].req.account_identifier))) = 1

\* C16: a StoreEntityToken, GetEntityAccessToken or DeleteEntityToken request
\* with every required field present and a credential that authenticates an
\* entity, whose lowercased platform is not supported, is answered with
\* UNIMPLEMENTED in the step that receives it: the handler never queries the
\* token rows, returns no token and the token rows are unchanged.
C16_UnsupportedPlatform ==
    [][\A t \in Threads :
          LET request == th'[t].req
              complete ==
                  /\ Truthy(request.platform)
                  /\ Truthy(request.account_identifier)
                  /\ \/ /\ Receives(t, "StoreEntityToken")
                        /\ Truthy(request.long_lived_token)
                        /\ Truthy(request.token)
                     \/ /\ Receives(t, "DeleteEntityToken")
                        /\ Truthy(request.long_lived_token)
                     \/ /\ Receives(t, "GetEntityAccessToken")
                        /\ Truthy(request.long_lived_token) \/ Truthy(request.device_id)
              authenticated ==
                  IF th'[t].rpc = "GetEntityAccessToken" /\ ~Truthy(request.long_lived_token)
                  THEN find_entity(entities, "device_id", request.device_id) # NoEntity
                  ELSE verify_long_lived_token(request, entities) # NoEntity
          IN  ( complete /\ authenticated
                /\ lower(request.platform) \notin SUPPORTED_PLATFORMS )
              => /\ th'[t].pc = "idle"
                 /\ th'[t].status = "UNIMPLEMENTED"
                 /\ th'[t].out = {}
                 /\ UNCHANGED <<entities, tokens, keystore>>
      ]_vars

\* C16 witness: an entity has a stored token and its DeleteEntityToken
\* request for an unsupported platform was answered with UNIMPLEMENTED.
C16_Witness ==
    \E t \in Threads :
        /\ th[t].pc = "idle"
        /\ th[t].rpc = "DeleteEntityToken"
        /\ th[t].status = "UNIMPLEMENTED"
        /\ lower(th[t].req.platform) \notin SUPPORTED_PLATFORMS
        /\ verify_long_lived_token(th[t].req, entities) # NoEntity
        /\ fetch_all_entity_tokens(tokens,
               verify_long_lived_token(th[t].req, entities)) # {}

\* C17: a GetEntityAccessToken request with neither long_lived_token nor
\* device_id is answered with INVALID_ARGUMENT, and one that carries both is
\* answered with an error in the step that receives it (it is not served on
\* the strength of one credential).
C17_ExactlyOneCredential ==
    [][\A t \in Threads :
          Receives(t, "GetEntityAccessToken")
          => LET request == th'[t].req
             IN  /\ ( ~Truthy(request.long_lived_token) /\ ~Truthy(request.device_id) )
                    => th'[t].pc = "idle" /\ th'[t].status = "INVALID_ARGUMENT"
                 /\ ( Truthy(request.long_lived_token) /\ Truthy(request.device_id) )
                    => th'[t].pc = "idle" /\ th'[t].status \in Errors
      ]_vars

\* The token values clients store.
TokenValues == {"tok1", "tok2", "tok3"}

\* The token rows of entity eid for an account on a platform.
TokensOf(rows, eid, platform, account_identifier) ==
    {r \in rows : /\ r.entity = eid
                  /\ r.platform = platform
                  /\ r.account_identifier_hash =
                         generate_hmac(HASHING_KEY, account_identifier)}

\* Thread t returns OK from handler rpc, whose last step is pc.
Succeeds(t, rpc, pc) ==
    At(t, rpc, pc) /\ Returns(t) /\ th'[t].status = "OK"

\* C18: GetEntityAccessToken of an authenticated entity for a supported
\* platform queries the rows of (entity, platform, account_identifier):
\* without a row it returns NOT_FOUND, with one it returns OK and the value
\* that row was written with.  The row of a key holds the value of the last
\* successful StoreEntityToken or UpdateEntityToken for the key, and is absent
\* after a successful DeleteEntityToken: each of these leaves the key's row
\* as said, and no other step changes the rows of any key.
C18_GetReturnsLastWritten ==
    [][ /\ \A t \in Threads :
             LET request == th'[t].req
                 entity_obj ==
                     IF Truthy(request.long_lived_token)
                     THEN verify_long_lived_token(request, entities)
                     ELSE find_entity(entities, "device_id", request.device_id)
             IN  ( /\ Receives(t, "GetEntityAccessToken")
                   /\ Truthy(request.long_lived_token) # Truthy(request.device_id)
                   /\ Truthy(request.platform)
                   /\ Truthy(request.account_identifier)
                   /\ entity_obj # NoEntity
                   /\ lower(request.platform) \in SUPPORTED_PLATFORMS )
                 => th'[t].pc = "fetch" /\ th'[t].ent = entity_obj
        /\ \A t \in Threads :
             LET request == th[t].req
                 before == TokensOf(tokens, th[t].ent.eid, request.platform,
                               request.account_identifier)
                 after == TokensOf(tokens', th[t].ent.eid, request.platform,
                              request.account_identifier)
             IN  /\ ( At(t, "GetEntityAccessToken", "fetch") /\ Stepped(t) )
                    => /\ Returns(t)
                       /\ tokens' = tokens
                       /\ IF before = {}
                          THEN th'[t].status = "NOT_FOUND" /\ th'[t].out = {}
                          ELSE /\ th'[t].status = "OK"
                               /\ \E r \in before : \E v \in TokenValues :
                                     /\ before = {r}
                                     /\ r.account_tokens = encrypt_and_encode(v)
                                     /\ th'[t].out = {[token |-> v]}
                 /\ ( \/ Succeeds(t, "StoreEntityToken", "create_token")
                      \/ Succeeds(t, "UpdateEntityToken", "save_token") )
                    => \E r \in after :
                          /\ after = {r}
                          /\ r.account_tokens = encrypt_and_encode(request.token)
                 /\ Succeeds(t, "DeleteEntityToken", "delete_token") => after = {}
        /\ \A r \in tokens \cup tokens' :
             (r \in tokens) # (r \in tokens')
             => \E t \in Threads :
                   /\ \/ Succeeds(t, "StoreEntityToken", "create_token")
                      \/ Succeeds(t, "UpdateEntityToken", "save_token")
                      \/ Succeeds(t, "DeleteEntityToken", "delete_token")
                   /\ r.entity = th[t].ent.eid
                   /\ r.platform = th[t].req.platform
                   /\ r.account_identifier_hash =
                          generate_hmac(HASHING_KEY, th[t].req.account_identifier)
      ]_vars

\* C18 witness: GetEntityAccessToken returned the value an UpdateEntityToken
\* wrote over the one StoreEntityToken had stored for the account.
C18_Witness ==
    \E t \in Threads :
        /\ th[t].pc = "idle"
        /\ th[t].rpc = "GetEntityAccessToken"
        /\ th[t].status = "OK"
        /\ th[t].out = {[token |-> "tok3"]}
        /\ th[t].req.account_identifier = "a@x"

\* C19: an UpdateEntityToken request with its fields present and the
\* device_id of an entity queries that entity's rows for (platform,
\* account_identifier).  With a matching row it replaces that row by the same
\* row with account_tokens set to the encrypted new value and returns OK;
\* with none it returns NOT_FOUND and writes nothing.  Every step of the
\* handler leaves the entity rows, the other token rows and the number of
\* token rows as they were.
C19_UpdateChangesOneValue ==
    [][\A t \in Threads :
          LET request == th[t].req
              matching == TokensOf(tokens, th[t].ent.eid, request.platform,
                              request.account_identifier)
          IN  /\ ( /\ Receives(t, "UpdateEntityToken")
                   /\ Truthy(th'[t].req.device_id) /\ Truthy(th'[t].req.token)
                   /\ Truthy(th'[t].req.platform)
                   /\ Truthy(th'[t].req.account_identifier)
                   /\ find_entity(entities, "device_id", th'[t].req.device_id) # NoEntity )
                 => /\ th'[t].pc = "fetch"
                    /\ th'[t].ent = find_entity(entities, "device_id", th'[t].req.device_id)
              /\ ( Stepped(t) /\ th'[t].rpc = "UpdateEntityToken" )
                 => /\ entities' = entities
                    /\ Cardinality(tokens') = Cardinality(tokens)
              /\ ( At(t, "UpdateEntityToken", "fetch") /\ Stepped(t) )
                 => /\ tokens' = tokens
                    /\ IF matching = {}
                       THEN Returns(t) /\ th'[t].status = "NOT_FOUND"
                       ELSE th'[t].pc = "save_token"
              /\ ( At(t, "UpdateEntityToken", "save_token") /\ Stepped(t) )
                 => /\ Returns(t)
                    /\ th'[t].status = "OK"
                    /\ \E r \in matching :
                          /\ matching = {r}
                          /\ tokens' = (tokens \ {r}) \cup
                                {[r EXCEPT !.account_tokens =
                                               encrypt_and_encode(request.token)]}
      ]_vars

\* C19 witness: an UpdateEntityToken returned OK for an entity with two
\* token rows, one of which now holds the new value and the other the value
\* it was stored with.
C19_Witness ==
    \E t \in Threads :
        /\ th[t].pc = "idle"
        /\ th[t].rpc = "UpdateEntityToken"
        /\ th[t].status = "OK"
        /\ \E r, q \in tokens :
              /\ r.account_tokens = encrypt_and_encode(th[t].req.token)
              /\ q.account_tokens = encrypt_and_encode("tok2")
              /\ r.entity = q.entity

\* C20: a DeleteEntity request with a long-lived token that authenticates an
\* entity goes on to the stored-token query; when the query finds no token
\* the handler goes on to the delete, and the delete of an entity without
\* tokens returns OK and removes the entity row only: afterwards no row is
\* found by the entity's eid, by its phone number hash or by its device_id.
C20_DeleteEntityWithoutTokens ==
    [][\A t \in Threads :
          /\ ( /\ Receives(t, "DeleteEntity")
               /\ Truthy(th'[t].req.long_lived_token)
               /\ verify_long_lived_token(th'[t].req, entities) # NoEntity )
             => th'[t].pc = "fetch"
          /\ ( /\ At(t, "DeleteEntity", "fetch")
               /\ Stepped(t)
               /\ fetch_all_entity_tokens(tokens, th[t].ent) = {} )
             => th'[t].pc = "delete"
          /\ ( /\ At(t, "DeleteEntity", "delete")
               /\ Stepped(t)
               /\ fetch_all_entity_tokens(tokens, th[t].ent) = {} )
             => /\ Returns(t)
                /\ th'[t].status = "OK"
                /\ entities' = {e \in entities : e.eid # th[t].ent.eid}
                /\ tokens' = tokens
                /\ find_entity(entities', "eid", th[t].ent.eid) = NoEntity
                /\ find_entity(entities', "phone_number_hash",
                       th[t].ent.phone_number_hash) = NoEntity
                /\ find_entity(entities', "device_id", th[t].ent.device_id) = NoEntity
      ]_vars

\* C20 witness: DeleteEntityToken removed the entity's token and returned OK,
\* DeleteEntity with the same long-lived token returned OK, and neither the
\* entity nor a token is stored.
C20_Witness ==
    \E t, u \in Threads :
        /\ th[t].pc = "idle" /\ th[t].rpc = "DeleteEntityToken" /\ th[t].status = "OK"
        /\ th[u].pc = "idle" /\ th[u].rpc = "DeleteEntity" /\ th[u].status = "OK"
        /\ th[u].req.long_lived_token = th[t].req.long_lived_token
        /\ find_entity(entities, "eid", th[u].req.long_lived_token[1]) = NoEntity
        /\ tokens = {}

\* C21: when DeleteEntity returns OK, the keystore holds no file for the
\* deleted entity's eid: neither <eid>_publish.db nor <eid>_device_id.db.
C21_DeleteEntityRemovesKeys ==
    [][\A t \in Threads :
          Succeeds(t, "DeleteEntity", "delete")
          => \A u \in Purposes : keystore'[keystore_path(th[t].ent.eid, u)] = 0
      ]_vars

\* C22: an EncryptPayload request with a plaintext and the device_id of an
\* entity returns OK with that entity's server_state advanced and persisted,
\* and the payload_ciphertext it returns is not the plaintext.
C22_EncryptRunsRatchet ==
    [][\A t \in Threads :
          ( /\ Stepped(t) /\ Returns(t)
            /\ th'[t].rpc = "EncryptPayload"
            /\ Truthy(th'[t].req.payload_plaintext)
            /\ find_entity(entities, "device_id", th'[t].req.device_id) # NoEntity )
          => LET entity_obj == find_entity(entities, "device_id", th'[t].req.device_id)
             IN  /\ th'[t].status = "OK"
                 /\ RowOf(entities', entity_obj.eid).server_state # <<>>
                 /\ RowOf(entities', entity_obj.eid).server_state # entity_obj.server_state
                 /\ \A o \in th'[t].out :
                       o.payload_ciphertext # th'[t].req.payload_plaintext
      ]_vars

\* C23: when a collaborator raises, at the first call of a handler or at any
\* later step, the handler returns in that step with status INTERNAL and the
\* generic user message, and the stores are unchanged; and every handler that
\* has taken a request returns its response.
C23_ExceptionsBecomeInternal ==
    /\ [][\A t \in Threads :
             (RaiseAtFirstCall(t) \/ RaiseAtStep(t))
             => /\ th'[t].pc = "idle"
                /\ th'[t].status = "INTERNAL"
                /\ th'[t].out =
                     {[details |-> "Oops! Something went wrong. Please try again later."]}
                /\ UNCHANGED <<entities, tokens, keystore, otp_pending>>
       ]_vars
    /\ \A t \in Threads : (th[t].pc # "idle") ~> (th[t].pc = "idle")

\* C24: an AuthenticateEntity request without ownership_proof_response for an
\* unknown phone number returns NOT_FOUND, without a password
\* INVALID_ARGUMENT, with a wrong password UNAUTHENTICATED, each in the step
\* that receives it, with the entity rows and the outstanding OTPs unchanged;
\* and when the OTP gateway refuses to send, the handler returns
\* INVALID_ARGUMENT with the entity rows unchanged.
C24_FailedPhaseOneKeepsEntity ==
    [][\A t \in Threads :
          LET request == th'[t].req
              entity_obj == find_entity(entities, "phone_number_hash",
                                generate_hmac(HASHING_KEY, request.phone_number))
              status ==
                  IF entity_obj = NoEntity THEN "NOT_FOUND"
                  ELSE IF ~Truthy(request.password) THEN "INVALID_ARGUMENT"
                  ELSE IF generate_hmac(HASHING_KEY, request.password)
                              # entity_obj.password_hash
                  THEN "UNAUTHENTICATED"
                  ELSE "send_otp"
          IN  /\ ( /\ Receives(t, "AuthenticateEntity")
                   /\ Truthy(request.phone_number)
                   /\ ~Truthy(request.ownership_proof_response) )
                 => /\ entities' = entities
                    /\ otp_pending' = otp_pending
                    /\ IF status = "send_otp"
                       THEN th'[t].pc = "send_otp"
                       ELSE th'[t].pc = "idle" /\ th'[t].status = status
              /\ ( At(t, "AuthenticateEntity", "send_otp") /\ Stepped(t) )
                 => /\ entities' = entities
                    /\ Returns(t) => th'[t].status = "INVALID_ARGUMENT"
              /\ ( /\ Stepped(t) /\ Returns(t)
                   /\ th'[t].rpc = "AuthenticateEntity"
                   /\ ~Truthy(th'[t].req.ownership_proof_response)
                   /\ th'[t].status \in Errors )
                 => entities' = entities
      ]_vars

\* C24 witness: the gateway refused the OTP of an authentication with the
\* right password, and the entity still has its device_id.
C24_Witness ==
    \E t \in Threads :
        /\ th[t].pc = "idle"
        /\ th[t].rpc = "AuthenticateEntity"
        /\ th[t].status = "INVALID_ARGUMENT"
        /\ Truthy(th[t].req.password)
        /\ ~Truthy(th[t].req.ownership_proof_response)
        /\ \E e \in entities :
              /\ e.phone_number_hash = generate_hmac(HASHING_KEY, th[t].req.phone_number)
              /\ e.password_hash = generate_hmac(HASHING_KEY, th[t].req.password)
              /\ e.device_id # NULL

\* C25: whenever initiate_authentication has had the OTP sent for an entity
\* and has not returned yet, the entity's stored device_id and server_state
\* are null already.
C25_ClearedBeforeOtpSent ==
    \A t \in Threads :
        At(t, "AuthenticateEntity", "clear")
        => \A e \in entities :
              e.eid = th[t].ent.eid => e.device_id = NULL /\ e.server_state = <<>>

\* C26: in every state, the publish_keypair and the device_id_keypair stored
\* on an entity are the keypairs the keystore holds in <eid>_publish.db and
\* <eid>_device_id.db.
C26_BlobsMatchKeystore ==
    \A e \in entities :
        /\ keystore[keystore_path(e.eid, "publish")] # 0
        /\ keystore[keystore_path(e.eid, "device_id")] # 0
        /\ e.publish_keypair =
              keypair(keystore_path(e.eid, "publish"),
                      keystore[keystore_path(e.eid, "publish")])
        /\ e.device_id_keypair =
              keypair(keystore_path(e.eid, "device_id"),
                      keystore[keystore_path(e.eid, "device_id")])

\* C26 witness: an entity was deleted and its phone number registered again;
\* the new entity is stored.
C26_Witness ==
    \E t, u \in Threads :
        /\ th[t].pc = "idle" /\ th[t].rpc = "DeleteEntity" /\ th[t].status = "OK"
        /\ th[u].pc = "idle" /\ th[u].rpc = "CreateEntity" /\ th[u].status = "OK"
        /\ Truthy(th[u].req.ownership_proof_response)
        /\ \E e \in entities : e.eid = th[t].req.long_lived_token[1]

\* C27: the platform of every stored token row is a lowercase member of
\* SUPPORTED_PLATFORMS.
C27_StoredPlatformLowercase ==
    \A r \in tokens :
        r.platform = lower(r.platform) /\ r.platform \in SUPPORTED_PLATFORMS

\* The failure path verify_long_lived_token takes on token over rows:
\* "split" without the separator, "entity" without an entity of the outer
\* eid, "verify_llt" when verify_llt rejects the token, "eid" when the
\* payload names another eid, "" when there is none.
LltFailure(token, rows) ==
    IF Len(token) # 2 THEN "split"
    ELSE IF RowOf(rows, token[1]) = NoEntity THEN "entity"
    ELSE IF \/ token[2].exp
            \/ token[2].key # agree(RowOf(rows, token[1]).device_id_keypair,
                                    RowOf(rows, token[1]).client_device_id_pub_key)
    THEN "verify_llt"
    ELSE IF token[2].eid # token[1] THEN "eid"
    ELSE ""

\* C28: a request of an LLT-protected RPC with its required fields present
\* whose token fails verify_long_lived_token on any of its paths (no
\* separator, no entity of the eid, verify_llt rejection, payload eid other
\* than the outer eid) is answered with UNAUTHENTICATED and one and the same
\* user message, whatever the path, and changes no state.
C28_OneMessageForEveryLltFailure ==
    [][\A t \in Threads : \A rpc \in LltRpcs :
          LET request == th'[t].req
          IN  ( /\ Receives(t, rpc)
                /\ validate_request_fields(request, first_required_fields(rpc)) = ""
                /\ Truthy(request.long_lived_token)
                /\ LltFailure(request.long_lived_token, entities) # "" )
              => /\ th'[t].pc = "idle"
                 /\ th'[t].status = "UNAUTHENTICATED"
                 /\ th'[t].out =
                        {[details |->
                            "Your session has expired or the token is invalid. "
                            \o "Please log in again to generate a new token."]}
                 /\ UNCHANGED <<entities, tokens, keystore, otp_pending>>
      ]_vars

\* C28 witness: a token signed under the entity's key whose payload names
\* another eid was answered with UNAUTHENTICATED.
C28_Witness ==
    \E t \in Threads :
        /\ th[t].pc = "idle"
        /\ th[t].rpc \in LltRpcs
        /\ th[t].status = "UNAUTHENTICATED"
        /\ th[t].out # {}
        /\ LltFailure(th[t].req.long_lived_token, entities) = "eid"

\* The lists of required fields the handlers pass to validate_request_fields.
RequiredFieldLists ==
    {first_required_fields(rpc) : rpc \in Rpcs}
    \cup {<<Name("country_code"), Name("password"),
            Name("client_publish_pub_key"), Name("client_device_id_pub_key")>>,
          <<Name("password")>>,
          <<Name("client_publish_pub_key"), Name("client_device_id_pub_key")>>}

\* Some entry of required_fields is missing on the request: a single name
\* that is falsy, or a tuple whose alternatives are all falsy.
SomeFieldMissing(request, required_fields) ==
    \E i \in DOMAIN required_fields :
        LET entry == required_fields[i]
        IN  IF entry.tuple
            THEN \A j \in DOMAIN entry.names : ~ Truthy(request[entry.names[j]])
            ELSE ~ Truthy(request[entry.names[1]])

\* A required client public key of the request is not a valid X25519 key.
SomeKeyInvalid(request, required_fields) ==
    \E i \in DOMAIN required_fields :
        /\ ~ required_fields[i].tuple
        /\ required_fields[i].names[1]
               \in {"client_publish_pub_key", "client_device_id_pub_key"}
        /\ ~ is_valid_x25519_public_key(request[required_fields[i].names[1]])

\* The handler of rpc gets an error from one of the validate_request_fields
\* calls it makes on request, with the entity rows as they are.
ValidationFails(rpc, request, rows) ==
    LET Rejected(required_fields) ==
            \/ SomeFieldMissing(request, required_fields)
            \/ SomeKeyInvalid(request, required_fields)
        entity_obj ==
            find_entity(rows, "phone_number_hash",
                        generate_hmac(HASHING_KEY, request.phone_number))
    IN  \/ Rejected(first_required_fields(rpc))
        \/ /\ rpc = "CreateEntity"
           /\ entity_obj = NoEntity
           /\ Truthy(request.ownership_proof_response)
           /\ Rejected(<<Name("country_code"), Name("password"),
                         Name("client_publish_pub_key"),
                         Name("client_device_id_pub_key")>>)
        \/ /\ rpc = "AuthenticateEntity"
           /\ entity_obj # NoEntity
           /\ IF Truthy(request.ownership_proof_response)
              THEN Rejected(<<Name("client_publish_pub_key"),
                              Name("client_device_id_pub_key")>>)
              ELSE Rejected(<<Name("password")>>)

\* C29: validate_request_fields returns INVALID_ARGUMENT exactly when a
\* single-name entry is falsy, or a tuple entry has all its alternatives
\* falsy, or (nothing missing) a required client public key is not a valid
\* X25519 key, and None otherwise; a handler that gets an error from it
\* returns INVALID_ARGUMENT in the step that received the request, before
\* any call of the OTP gateway and with the entity rows, the token rows and
\* the keystore unchanged.
C29_ValidationRejectsAndWritesNothing ==
    [][\A t \in Threads : \A rpc \in Rpcs :
          Receives(t, rpc)
          => LET request == th'[t].req
             IN  /\ \A required_fields \in RequiredFieldLists :
                        validate_request_fields(request, required_fields)
                        = IF \/ SomeFieldMissing(request, required_fields)
                             \/ /\ ~ SomeFieldMissing(request, required_fields)
                                /\ SomeKeyInvalid(request, required_fields)
                          THEN "INVALID_ARGUMENT"
                          ELSE ""
                 /\ ValidationFails(rpc, request, entities)
                    => /\ th'[t].pc = "idle"
                       /\ th'[t].status = "INVALID_ARGUMENT"
                       /\ UNCHANGED <<otp_pending, entities, tokens, keystore>>
      ]_vars

\* C29 witness: a GetEntityAccessToken request with neither device_id nor
\* long_lived_token was answered with INVALID_ARGUMENT while an entity and
\* a token row exist.
C29_Witness ==
    \E t \in Threads :
        /\ th[t].pc = "idle"
        /\ th[t].rpc = "GetEntityAccessToken"
        /\ th[t].status = "INVALID_ARGUMENT"
        /\ ~ Truthy(th[t].req.device_id)
        /\ ~ Truthy(th[t].req.long_lived_token)
        /\ Truthy(th[t].req.platform)
        /\ Truthy(th[t].req.account_identifier)
        /\ entities # {}
        /\ tokens # {}

\* The RPCs that authenticate the caller by device_id.
DeviceRpcs ==
    {"DecryptPayload", "EncryptPayload", "UpdateEntityToken",
     "GetEntityAccessToken"}

\* The entity of phone number p is between a successful phase 1 and the
\* next successful phase 2 of AuthenticateEntity: a thread's last response
\* was OK to a phase-1 request for p, the code sent then is still pending
\* (no verify_otp for p has succeeded since) and no AuthenticateEntity
\* handler is running.
ReauthenticationPending(p) ==
    /\ \E u \in Threads :
          /\ th[u].pc = "idle"
          /\ th[u].rpc = "AuthenticateEntity"
          /\ th[u].status = "OK"
          /\ th[u].req.phone_number = p
          /\ ~ Truthy(th[u].req.ownership_proof_response)
    /\ p \in otp_pending
    /\ \A u \in Threads :
          th[u].pc # "idle" => th[u].rpc # "AuthenticateEntity"

\* C30: between the response of a successful AuthenticateEntity phase 1 for
\* an entity and a successful phase 2 for it, a DecryptPayload,
\* EncryptPayload, UpdateEntityToken or GetEntityAccessToken (without LLT)
\* request that presents a device_id the entity had before is answered with
\* UNAUTHENTICATED in the step that receives it and changes no state.
C30_OldDeviceIdRejectedDuringReauth ==
    [][\A t \in Threads : \A rpc \in DeviceRpcs : \A p \in Phones :
          LET request == th'[t].req
          IN  ( /\ ReauthenticationPending(p)
                /\ Receives(t, rpc)
                /\ validate_request_fields(request, first_required_fields(rpc)) = ""
                /\ ~ Truthy(request.long_lived_token)
                /\ request.device_id \in DeviceIds({p}, Clients) )
              => /\ th'[t].pc = "idle"
                 /\ th'[t].status = "UNAUTHENTICATED"
                 /\ UNCHANGED <<entities, tokens, keystore, otp_pending>>
      ]_vars

\* The RPCs that read or write token rows.
TokenRpcs ==
    {"ListEntityStoredTokens", "StoreEntityToken", "GetEntityAccessToken",
     "UpdateEntityToken", "DeleteEntityToken"}

\* The entity row the credential of request resolves to: the row of the
\* presented device_id for UpdateEntityToken and for a GetEntityAccessToken
\* without LLT, else the row the long-lived token authenticates.
ResolvedFrom(rpc, request, rows) ==
    {r \in rows :
        IF \/ rpc = "UpdateEntityToken"
           \/ rpc = "GetEntityAccessToken" /\ ~ Truthy(request.long_lived_token)
        THEN r.device_id = request.device_id
        ELSE Authenticates(request.long_lived_token, r)}

\* The token rows of rows that eid does not own.
RowsOfOthers(rows, eid) == {r \in rows : r.entity # eid}

\* C31: a token handler works for the entity its request's LLT or device_id
\* resolves to.  Every step of it leaves the token rows of all other
\* entities as they are and adds no row to them; ListEntityStoredTokens
\* returns exactly the projections of the rows that entity owns, and
\* GetEntityAccessToken returns the value of a row that entity owns for the
\* requested platform and account, or NOT_FOUND when it owns none.
C31_TokensConfinedToCaller ==
    [][\A t \in Threads : \A rpc \in TokenRpcs :
          /\ ( Receives(t, rpc) /\ th'[t].pc # "idle" )
             => /\ th'[t].ent \in ResolvedFrom(rpc, th'[t].req, entities)
                /\ UNCHANGED tokens
          /\ ( th[t].rpc = rpc /\ th[t].pc # "idle" /\ Stepped(t) )
             => LET owner == th[t].ent.eid
                    request == th[t].req
                    own == TokensOf(tokens, owner, request.platform,
                                    request.account_identifier)
                IN  /\ RowsOfOthers(tokens', owner) = RowsOfOthers(tokens, owner)
                    /\ ( rpc = "ListEntityStoredTokens" /\ Returns(t) )
                       => th'[t].out =
                             {[account_identifier |->
                                   decrypt_and_decode(r.account_identifier),
                               platform |-> r.platform] :
                                  r \in {q \in tokens : q.entity = owner}}
                    /\ ( rpc = "GetEntityAccessToken" /\ Returns(t) )
                       => IF own = {}
                          THEN th'[t].status = "NOT_FOUND" /\ th'[t].out = {}
                          ELSE /\ th'[t].status = "OK"
                               /\ \E r \in own :
                                     th'[t].out =
                                        {[token |-> decrypt_and_decode(r.account_tokens)]}
      ]_vars

\* C31 witness: ListEntityStoredTokens answered an entity that owns no token
\* row with the empty list while another entity owns one.
C31_Witness ==
    \E t \in Threads :
        LET entity_obj == verify_long_lived_token(th[t].req, entities)
        IN  /\ th[t].pc = "idle"
            /\ th[t].rpc = "ListEntityStoredTokens"
            /\ th[t].status = "OK"
            /\ th[t].out = {}
            /\ entity_obj # NoEntity
            /\ \E r \in tokens : r.entity # entity_obj.eid

\* The long-lived tokens that authenticate a row of rows.
AcceptedTokens(rows) ==
    {l \in LongLivedTokens(env) : \E r \in rows : Authenticates(l, r)}

\* C32: a long-lived token authenticates only a row whose stored
\* device_id_keypair and client_device_id_pub_key are those it was minted
\* under.  A phase 2 of AuthenticateEntity that stores another
\* client_device_id_pub_key leaves no token accepted that was accepted before
\* for the entity; after a DeleteEntity has answered OK to a token, every
\* LLT-authenticated RPC answers that token with UNAUTHENTICATED; and the
\* clearing of phase 1 leaves every accepted token accepted.
C32_LltBoundToStoredKeys ==
    [][\A t \in Threads :
          /\ ( At(t, "AuthenticateEntity", "save") /\ Stepped(t)
               /\ \E r \in entities :
                     /\ r.eid = th[t].ent.eid
                     /\ r.client_device_id_pub_key
                            # th[t].req.client_device_id_pub_key )
             => \A l \in AcceptedTokens(entities) :
                    l[1] = th[t].ent.eid => l \notin AcceptedTokens(entities')
          /\ \A u \in Threads : \A rpc \in LltRpcs :
                ( /\ th[u].pc = "idle"
                  /\ th[u].rpc = "DeleteEntity"
                  /\ th[u].status = "OK"
                  /\ Receives(t, rpc)
                  /\ validate_request_fields(th'[t].req, first_required_fields(rpc)) = ""
                  /\ th'[t].req.long_lived_token = th[u].req.long_lived_token )
                => th'[t].pc = "idle" /\ th'[t].status = "UNAUTHENTICATED"
          /\ ( At(t, "AuthenticateEntity", "clear") /\ Stepped(t) )
             => AcceptedTokens(entities) \subseteq AcceptedTokens(entities')
      ]_vars

====
